---- MODULE Spec2Model ----
(***************************************************************************)
(* Forecast collection engine of foresight-web: the OpenRouter client      *)
(* (query_model with its reply cache), the ensemble manager that drives    *)
(* sources x iterations, and the web job that runs and cancels forecasts.  *)
(***************************************************************************)
EXTENDS Integers, Sequences, FiniteSets, TLC

(* ------------------------------ bounds --------------------------------- *)
\* largest iteration count per source the batches are explored with
MaxIter == 2
\* largest configured concurrent_requests the batches are explored with
MaxConc == 2
\* last instant the clock is advanced to
MaxNow == 1
\* largest number of queries (sources x iterations) of a batch
MaxQueries == 2

(* ------------------------- values and strings -------------------------- *)
\* Python None where a number is expected
Null == -1

\* identifiers and prompts are sequences of tokens, so that "':free' in model"
\* and the f-string of the cache key are computed, not assumed
Contains(s, w) == \E i \in 1..Len(s) : s[i] = w

ContainsPair(s, a, b) == \E i \in 1..(Len(s) - 1) : s[i] = a /\ s[i + 1] = b

PaidModel == <<"openai/", "gpt-4">>

FreeModel == <<"mistralai/", "mistral", ":", "free">>

TestModel == <<"openai/gpt-3.5-turbo">>

TestPrompt == <<"Say 'test successful' if you can read this.">>

BatchPrompt == <<"super-forecaster prompt">>

\* ':free' in model
IsFreeModel(model) == ContainsPair(model, ":", "free")

(* ----------------------------- settings -------------------------------- *)
\* the fields APIConfig declares, with their defaults
APIConfig == [base_url |-> "https://openrouter.ai/api/v1", timeout |-> 120,
              retry_attempts |-> 3, retry_delay |-> 5]

\* getattr(obj, name, default)
GetAttr(obj, name, default) == IF name \in DOMAIN obj THEN obj[name] ELSE default

(* --------------------------- reply cache ------------------------------- *)
\* instants per calendar day of the model's clock
TicksPerDay == 2

\* ttl_hours = 168, i.e. seven days
TtlDays == 7

Date(t) == t \div TicksPerDay

NoEntry == [present |-> FALSE, response |-> <<>>, probability |-> Null, expires_at |-> 0]

\* content = f"{model}:{prompt}"; sha256 is taken as injective on content
GenerateCacheKey(model, prompt) == model \o <<":">> \o prompt

\* expires_at > datetime('now'): expires_at is stored as isoformat text
\* ("YYYY-MM-DDTHH:MM:SS.ffffff") and compared as text with SQLite's
\* "YYYY-MM-DD HH:MM:SS"; equal dates compare 'T' > ' ', later dates win
SqlNotExpired(expires_at, t) == Date(expires_at) >= Date(t)

\* expires_at = now + self.ttl
ExpiresAt(t) == t + TtlDays * TicksPerDay

\* WHERE cache_key = ? AND expires_at > datetime('now')
RowServed(row, t) == row.present /\ SqlNotExpired(row.expires_at, t)

\* CacheManager.get: the row of the key when the query's WHERE clause keeps it;
\* the probability column overwrites the decoded response's probability
CacheGet(c, t, model, prompt) ==
    LET key == GenerateCacheKey(model, prompt) IN
    IF key \in DOMAIN c /\ RowServed(c[key], t)
    THEN [c[key] EXCEPT !.response = [c[key].response EXCEPT !.probability = c[key].probability]]
    ELSE NoEntry

\* mutant: set stores nothing
CacheSetDropsRow(c, t, model, prompt, response) == c

\* CacheManager.set: INSERT OR REPLACE of the row of the key
CacheSet(c, t, model, prompt, response) ==
    LET key == GenerateCacheKey(model, prompt) IN
    [c EXCEPT ![key] = [present |-> TRUE, response |-> response,
                        probability |-> response.probability, expires_at |-> ExpiresAt(t)]]

\* CacheManager.clear_expired: DELETE ... WHERE expires_at <= datetime('now')
ClearExpiredRows(c, t) ==
    [k \in DOMAIN c |-> IF c[k].present /\ ~SqlNotExpired(c[k].expires_at, t) THEN NoEntry ELSE c[k]]

(* --------------------------- query_model ------------------------------- *)
\* the patterns of the token-floor table that each identifier token contains
SubstringsOf(token) ==
    CASE token = "gemma" -> {"gemma"}
      [] token = "gemini" -> {"gemini"}
      [] token = "gpt-5" -> {"gpt-5"}
      [] token = "qwen-2.5-72b" -> {"qwen", "qwen-2.5-72b"}
      [] token = "qwen-2.5-coder" -> {"qwen", "qwen-2.5-coder"}
      [] token = "qwq" -> {"qwq"}
      [] token = "deepseek" -> {"deepseek"}
      [] token = "grok" -> {"grok"}
      [] token = "llama-4-maverick" -> {"llama", "llama-4-maverick"}
      [] token = "llama" -> {"llama"}
      [] OTHER -> {}

\* pattern in model.lower()
InModel(pattern, model) == \E i \in 1..Len(model) : pattern \in SubstringsOf(model[i])

Max(a, b) == IF a >= b THEN a ELSE b

\* the model-specific token requirements
EffectiveMaxTokens(model, max_tokens) ==
    IF InModel("gemini", model) \/ InModel("gemma", model) THEN Max(max_tokens, 8000)
    ELSE IF InModel("gpt-5", model) THEN Max(max_tokens, 4000)
    ELSE IF InModel("qwen", model) \/ InModel("qwq", model) THEN
        (IF InModel("qwen-2.5-72b", model) THEN Max(max_tokens, 10000)
         ELSE IF InModel("qwen-2.5-coder", model) THEN Max(max_tokens, 8000)
         ELSE Max(max_tokens, 8000))
    ELSE IF InModel("deepseek", model) THEN Max(max_tokens, 8000)
    ELSE IF InModel("grok", model) THEN Max(max_tokens, 8000)
    ELSE IF InModel("llama", model) THEN
        (IF InModel("llama-4-maverick", model) THEN Max(max_tokens, 8000)
         ELSE Max(max_tokens, 6000))
    ELSE IF IsFreeModel(model) THEN Max(max_tokens, 6000)
    ELSE max_tokens

\* the shape of every response dictionary; iteration 0 is "not set yet",
\* content is the length of the text (Null for None), error is <<>> when absent
Result(model, status, probability, error, content, source) ==
    [py |-> "dict", model |-> model, iteration |-> 0, status |-> status,
     probability |-> probability, error |-> error, content |-> content,
     response_source |-> source]

\* an exception object that travels through gather / the except clause
ExceptionObj(msg) ==
    [py |-> "Exception", model |-> <<>>, iteration |-> 0, status |-> "",
     probability |-> Null, error |-> msg, content |-> Null, response_source |-> ""]

NoResult ==
    [py |-> "unset", model |-> <<>>, iteration |-> 0, status |-> "",
     probability |-> Null, error |-> <<>>, content |-> Null, response_source |-> ""]

\* what the external capability can do with one request: text of some length
\* (Null: no content), a timeout, or an exception with a message
Replies ==
    {[kind |-> "content", length |-> n, refusal |-> FALSE, value |-> v, error_str |-> <<>>] :
        n \in {50}, v \in {Null, 30, 150}}
    \cup {[kind |-> "content", length |-> 50, refusal |-> TRUE, value |-> Null, error_str |-> <<>>]}
    \cup {[kind |-> "content", length |-> n, refusal |-> FALSE, value |-> Null, error_str |-> <<>>] :
        n \in {Null, 5}}
    \cup {[kind |-> "timeout", length |-> Null, refusal |-> FALSE, value |-> Null, error_str |-> <<>>]}
    \cup {[kind |-> "exception", length |-> Null, refusal |-> FALSE, value |-> Null, error_str |-> e] :
        e \in {<<"429">>, <<"404", "not found">>, <<"400", "invalid">>, <<"connection", "reset">>}}

\* the message of a failed SQLite operation
DbErrorStr == <<"database", "is", "locked">>

\* the classification of an exception by its message
StatusOfError(error_str) ==
    IF Contains(error_str, "429") \/ Contains(error_str, "rate")
       \/ Contains(error_str, "too many requests") THEN "rate_limited"
    ELSE IF Contains(error_str, "404") \/ Contains(error_str, "not found") THEN "not_found"
    ELSE IF Contains(error_str, "400") \/ Contains(error_str, "invalid") THEN "invalid_model"
    ELSE "error"

\* except asyncio.TimeoutError
TimeoutResult(model) == Result(model, "timeout", Null, <<"Request timeout">>, Null, "")

\* mutant: the error record loses its message
ErrorResultNoMessage(model, error_str) ==
    Result(model, StatusOfError(error_str), Null, <<>>, Null, "")

\* except Exception as e
ErrorResult(model, error_str) == Result(model, StatusOfError(error_str), Null, error_str, Null, "")

\* not content or len(content) < 10
IsEmptyContent(length) == length = Null \/ length = 0 \/ length < 10

\* mutant: the extracted value is kept whatever it is
KeepsProbability(value) == value

\* the final validation of the extracted probability
ValidatedProbability(value) == IF value # Null /\ (value < 0 \/ value > 100) THEN Null ELSE value

\* mutant: the refusal phrases are not looked for
ContentStatusIgnoresRefusal(reply) == "success"

\* "rejected" if is_rejected else "success"
ContentStatus(reply) == IF reply.refusal THEN "rejected" ELSE "success"

\* mutant: every reply with content is cached, refusals included
ShouldCacheAnyContent(cacheOn, status) == cacheOn /\ status \in {"success", "rejected"}

\* if self.cache and result["status"] == "success"
ShouldCache(cacheOn, status) == cacheOn /\ status = "success"

\* query_model from the capability's reply on: the result, the cache after it
\* and whether cache.set stored the result (setFails: the INSERT raises inside
\* the try block)
QueryModelFinish(c, t, model, prompt, reply, cacheOn, setFails) ==
    IF reply.kind = "timeout"
    THEN [result |-> TimeoutResult(model), cache |-> c, stored |-> FALSE]
    ELSE IF reply.kind = "exception"
    THEN [result |-> ErrorResult(model, reply.error_str), cache |-> c, stored |-> FALSE]
    ELSE IF IsEmptyContent(reply.length)
    THEN [result |-> Result(model, "empty_response", Null, <<"Empty or insufficient response">>,
                            reply.length, "api"),
          cache |-> c, stored |-> FALSE]
    ELSE LET r == Result(model, ContentStatus(reply), ValidatedProbability(reply.value), <<>>,
                         reply.length, "api") IN
         IF ShouldCache(cacheOn, r.status)
         THEN (IF setFails
               THEN [result |-> ErrorResult(model, DbErrorStr), cache |-> c, stored |-> FALSE]
               ELSE [result |-> r, cache |-> CacheSet(c, t, model, prompt, r), stored |-> TRUE])
         ELSE [result |-> r, cache |-> c, stored |-> FALSE]

\* mutant: the force_refresh flag is read the wrong way round
ConsultsCacheInverted(cacheOn, force_refresh) == cacheOn /\ force_refresh

\* if self.cache and not force_refresh
ConsultsCache(cacheOn, force_refresh) == cacheOn /\ ~force_refresh

\* query_model up to the request: a cache hit returns at once, a failing
\* lookup raises out of query_model, anything else issues the request
QueryModelEnter(c, t, model, prompt, max_tokens, cacheOn, force_refresh, getFails) ==
    IF ConsultsCache(cacheOn, force_refresh)
    THEN (IF getFails THEN [outcome |-> "raise", result |-> ExceptionObj(DbErrorStr), tokens |-> 0]
          ELSE LET e == CacheGet(c, t, model, prompt) IN
               IF e.present
               THEN [outcome |-> "hit",
                     result |-> [e.response EXCEPT !.response_source = "cache"], tokens |-> 0]
               ELSE [outcome |-> "miss", result |-> NoResult,
                     tokens |-> EffectiveMaxTokens(model, max_tokens)])
    ELSE [outcome |-> "miss", result |-> NoResult, tokens |-> EffectiveMaxTokens(model, max_tokens)]

(* ------------------------------ state ---------------------------------- *)
VARIABLES
    models,               \* the sources of the batch, in order
    iterations,           \* iterations per source
    use_cache,            \* OpenRouterClient.use_cache
    concurrent_requests,  \* settings.models.concurrent_requests
    cache,                \* rows of response_cache by cache key
    now,                  \* the clock
    pc,                   \* where run_ensemble_forecast stands
    mi,                   \* index of the source the for loop is at
    pos,                  \* where each limited_query(i) of the source stands
    results,              \* what each limited_query(i) returned or raised
    calls,                \* query_model invocations made by each limited_query(i)
    req_tokens,           \* max_tokens of the request each limited_query(i) has in flight
    slept,                \* the delay limited_query(i) slept before its first query
    trace,                \* the statuses query_model returned to limited_query(i), in order
    cap,                  \* the kinds of reply the capability gave limited_query(i), in order
    all_calls,            \* query_model invocations of every collected (source, iteration)
    semaphore,            \* free permits of the source's asyncio.Semaphore
    model_task,           \* completed count of each source's progress task
    main_task,            \* completed count of the overall progress task
    all_results,          \* the records collected so far
    cl_pc,                \* a direct caller of query_model: "idle" or "inflight"
    cl_req,               \* the arguments of the caller's current or last call
    cl_ret,               \* what the caller's last call returned or raised
    cl_info,              \* what the caller's last call did: the row it found, request, write
    api_calls,            \* requests the caller's calls have sent to the capability
    job_pc,               \* where the web job's run_forecast task stands
    job_models,           \* the models of the forecast request
    job_i,                \* index of the model run_forecast's loop is at
    job_status,           \* running_forecasts[id]["status"]
    job_progress,         \* running_forecasts[id]["progress"]
    job_result,           \* running_forecasts[id]["result"]
    job_error,            \* running_forecasts[id]["error"]
    model_results,        \* run_forecast's local list of per-model results
    fn_args,              \* the arguments of a direct call of a library function
    fn_ret,               \* what that call returned
    fn_calls,             \* direct calls made so far
    historical_performance, \* BayesianAggregator.historical_performance: errors by expert
    calibrator            \* a BatchCalibrator: method, temperature, is_fitted, calibration_model

batchVars == <<models, iterations, concurrent_requests, pc, mi, pos, results, calls, req_tokens,
               slept, trace, cap, all_calls, semaphore, model_task, main_task, all_results>>

clientVars == <<cl_pc, cl_req, cl_ret, cl_info, api_calls>>

jobVars == <<job_pc, job_models, job_i, job_status, job_progress, job_result, job_error,
             model_results>>

libVars == <<fn_args, fn_ret, fn_calls, historical_performance, calibrator>>

vars == <<batchVars, clientVars, jobVars, libVars, use_cache, cache, now>>

config == <<models, iterations, use_cache, concurrent_requests, clientVars, jobVars, libVars>>

\* the (model, prompt) pairs the programs of this module query
QueriedPairs == {<<TestModel, TestPrompt>>, <<PaidModel, BatchPrompt>>, <<FreeModel, BatchPrompt>>}

CacheKeys == {GenerateCacheKey(q[1], q[2]) : q \in QueriedPairs}

\* a row written by an earlier run: always a success reply, of any age
StoredRows(model) ==
    {NoEntry} \cup
    {[present |-> TRUE, response |-> Result(model, "success", 85, <<>>, 50, "api"),
      probability |-> 85, expires_at |-> e] : e \in {-1, MaxNow + 1}}

EmptyCache == [k \in CacheKeys |-> NoEntry]

\* the store at start: empty, or holding one row of an earlier run
InitCaches ==
    UNION {{[EmptyCache EXCEPT ![GenerateCacheKey(q[1], q[2])] = row] : row \in StoredRows(q[1])} :
           q \in QueriedPairs}

Tasks == 1..iterations

cur_model == models[mi]

\* rate_limit_delay = getattr(self.settings.api, 'rate_limit_delay', 0) if is_free_model else 0
RateLimitDelay(m) == IF IsFreeModel(m) THEN GetAttr(APIConfig, "rate_limit_delay", 0) ELSE 0

\* mutant: one permit too many for paid sources
ConcurrentLimitOffByOne(m, configured) == IF IsFreeModel(m) THEN 1 ELSE configured + 1

\* concurrent_limit = 1 if is_free_model else self.settings.models.concurrent_requests
ConcurrentLimit(m, configured) == IF IsFreeModel(m) THEN 1 ELSE configured

Finished == {"done", "raised"}

NoRequest == [model |-> <<>>, prompt |-> <<>>, max_tokens |-> 0, force_refresh |-> FALSE]

NoInfo == [how |-> "none", row |-> NoEntry, at |-> 0, invoked |-> FALSE, wrote |-> FALSE]

ClientIdle ==
    /\ cl_pc = "idle"
    /\ cl_req = NoRequest
    /\ cl_ret = NoResult
    /\ cl_info = NoInfo
    /\ api_calls = 0

NoJobResult == [present |-> FALSE, ensemble_probability |-> 0, successful_queries |-> 0,
                total_queries |-> 0, detailed_results |-> <<>>]

\* running_forecasts = {}
JobIdle ==
    /\ job_pc = "none"
    /\ job_models = <<>>
    /\ job_i = 0
    /\ job_status = "absent"
    /\ job_progress = 0
    /\ job_result = NoJobResult
    /\ job_error = ""
    /\ model_results = <<>>

\* no BatchCalibrator has been constructed
NoCalibrator == [method |-> "none", temperature |-> 0, is_fitted |-> FALSE, calibration_model |-> FALSE]

NoCall == [fn |-> "none"]

NotReturned == [done |-> FALSE, fn |-> "none", value |-> Null]

\* no library function is being called directly
LibIdle ==
    /\ fn_args = NoCall
    /\ fn_ret = NotReturned
    /\ fn_calls = 0
    /\ historical_performance = <<>>
    /\ calibrator = NoCalibrator

Init ==
    /\ ClientIdle
    /\ JobIdle
    /\ LibIdle
    /\ models \in {<<PaidModel>>, <<FreeModel>>, <<PaidModel, FreeModel>>, <<FreeModel, PaidModel>>}
    /\ iterations \in 1..MaxIter
    /\ Len(models) * iterations <= MaxQueries
    /\ use_cache \in BOOLEAN
    /\ concurrent_requests \in 1..MaxConc
    /\ cache \in InitCaches
    /\ now = 0
    /\ pc = "start"
    /\ mi = 1
    /\ pos = [i \in Tasks |-> "idle"]
    /\ results = [i \in Tasks |-> NoResult]
    /\ calls = [i \in Tasks |-> 0]
    /\ req_tokens = [i \in Tasks |-> 0]
    /\ slept = [i \in Tasks |-> Null]
    /\ trace = [i \in Tasks |-> <<>>]
    /\ cap = [i \in Tasks |-> <<>>]
    /\ all_calls = <<>>
    /\ semaphore = 0
    /\ model_task = [k \in 1..Len(models) |-> 0]
    /\ main_task = 0
    /\ all_results = <<>>

(* ----------------------- run_ensemble_forecast ------------------------- *)
\* all(':free' in model for model in models)
AllFree(ms) == \A k \in 1..Len(ms) : IsFreeModel(ms[k])

\* test_connection: response.get("status") == "success", False on an exception
ConnectionOk(outcome, result) == outcome # "raise" /\ result.status = "success"

\* the connection test, up to its request
TestConnection ==
    /\ pc = "start"
    /\ \E getFails \in BOOLEAN :
         LET e == QueryModelEnter(cache, now, TestModel, TestPrompt, 10, use_cache, FALSE, getFails) IN
         pc' = IF AllFree(models) THEN "loop"
               ELSE IF e.outcome = "miss" THEN "testing"
               ELSE IF ConnectionOk(e.outcome, e.result) THEN "loop"
               ELSE "raised"
    /\ UNCHANGED <<config, cache, now, mi, pos, results, calls, req_tokens, slept, trace, cap,
                   all_calls, semaphore, model_task, main_task, all_results>>

\* the reply to the connection test's request
TestReply ==
    /\ pc = "testing"
    /\ \E reply \in Replies, setFails \in BOOLEAN :
         LET f == QueryModelFinish(cache, now, TestModel, TestPrompt, reply, use_cache, setFails) IN
         /\ cache' = f.cache
         /\ pc' = IF ConnectionOk("reply", f.result) THEN "loop" ELSE "raised"
    /\ UNCHANGED <<config, now, mi, pos, results, calls, req_tokens, slept, trace, cap,
                   all_calls, semaphore, model_task, main_task, all_results>>

\* for model in models: ... _run_model_batch creates the semaphore and the queries
StartModel ==
    /\ pc = "loop"
    /\ mi <= Len(models)
    /\ pc' = "batch"
    /\ pos' = [i \in Tasks |-> "new"]
    /\ results' = [i \in Tasks |-> NoResult]
    /\ calls' = [i \in Tasks |-> 0]
    /\ req_tokens' = [i \in Tasks |-> 0]
    /\ slept' = [i \in Tasks |-> Null]
    /\ trace' = [i \in Tasks |-> <<>>]
    /\ cap' = [i \in Tasks |-> <<>>]
    /\ semaphore' = ConcurrentLimit(cur_model, concurrent_requests)
    /\ UNCHANGED <<config, cache, now, mi, all_calls, model_task, main_task, all_results>>

(* --------------------------- limited_query ----------------------------- *)
\* mutant: every source is retried on an empty reply
RetryAnyModel(m, result) == result.status = "empty_response"

\* result.get("status") == "empty_response" and ':free' in model
RetryNeeded(m, result) == result.status = "empty_response" /\ IsFreeModel(m)

\* max_tokens of the first attempt (query_model's default) and of the retry
AttemptMaxTokens(attempt) == IF attempt = 1 THEN 4000 ELSE 10000

\* the retry: query_model(model, prompt, enable_web_search=True, max_tokens=10000)
SecondCall(m, c, t, cacheOn, getFails, made, ret) ==
    LET e == QueryModelEnter(c, t, m, BatchPrompt, AttemptMaxTokens(2), cacheOn, FALSE, getFails) IN
    CASE e.outcome = "raise" ->
            [pos |-> "raised", result |-> e.result, tokens |-> 0, calls |-> made + 1,
             returned |-> Append(ret, "raise")]
      [] e.outcome = "hit" ->
            [pos |-> "done", result |-> e.result, tokens |-> 0, calls |-> made + 1,
             returned |-> Append(ret, e.result.status)]
      [] OTHER ->
            [pos |-> "q2", result |-> NoResult, tokens |-> e.tokens, calls |-> made + 1,
             returned |-> ret]

\* the step after a query_model call returned `result`: retry once or finish
AfterResult(m, attempt, result, c, t, cacheOn, getFails, made) ==
    IF attempt = 1 /\ RetryNeeded(m, result)
    THEN SecondCall(m, c, t, cacheOn, getFails, made, <<result.status>>)
    ELSE [pos |-> "done", result |-> result, tokens |-> 0, calls |-> made,
          returned |-> <<result.status>>]

\* the first attempt: query_model(model, prompt, enable_web_search=True)
FirstCall(m, c, t, cacheOn, getFails) ==
    LET e == QueryModelEnter(c, t, m, BatchPrompt, AttemptMaxTokens(1), cacheOn, FALSE, getFails) IN
    CASE e.outcome = "raise" ->
            [pos |-> "raised", result |-> e.result, tokens |-> 0, calls |-> 1,
             returned |-> <<"raise">>]
      [] e.outcome = "hit" -> AfterResult(m, 1, e.result, c, t, cacheOn, getFails, 1)
      [] OTHER ->
            [pos |-> "q1", result |-> NoResult, tokens |-> e.tokens, calls |-> 1,
             returned |-> <<>>]

\* progress.update(task_id, advance=1), reached only when limited_query returns
AdvanceModelTask(counters, k, o) ==
    IF o.pos = "done" THEN [counters EXCEPT ![k] = @ + 1] ELSE counters

\* mutant: the zero-based loop index is stored
StampIterationZeroBased(result, i) == [result EXCEPT !.iteration = i - 1]

\* result["iteration"] = iteration + 1
StampIteration(result, i) == [result EXCEPT !.iteration = i]

\* the permits after a step of limited_query(i): taken on entering the
\* "async with", given back on leaving it by return or by exception
PermitsAfter(permits, held, o) ==
    IF held THEN (IF o.pos \in Finished THEN permits + 1 ELSE permits)
    ELSE (IF o.pos \in Finished THEN permits ELSE permits - 1)

\* the effect of a step of limited_query(i) that ends in outcome o
Apply(i, o, held) ==
    /\ pos' = [pos EXCEPT ![i] = o.pos]
    /\ results' = [results EXCEPT ![i] =
                      IF o.pos = "done" THEN StampIteration(o.result, i)
                      ELSE IF o.pos = "raised" THEN o.result ELSE NoResult]
    /\ calls' = [calls EXCEPT ![i] = @ + o.calls]
    /\ trace' = [trace EXCEPT ![i] = @ \o o.returned]
    /\ req_tokens' = [req_tokens EXCEPT ![i] = o.tokens]
    /\ model_task' = AdvanceModelTask(model_task, mi, o)
    /\ semaphore' = PermitsAfter(semaphore, held, o)

\* which query may enter next: the free-tier loop awaits limited_query(i)
\* before it calls limited_query(i+1); gather starts the tasks in order and
\* the semaphore wakes its waiters in order
MayStart(m, i) ==
    IF IsFreeModel(m) THEN \A j \in 1..(i - 1) : pos[j] \in Finished
    ELSE \A j \in 1..(i - 1) : pos[j] # "new"

\* if is_free_model and iteration > 0 (iteration counts from 0)
SleepsFirst(m, i) == IsFreeModel(m) /\ i - 1 > 0

\* limited_query(i) enters "async with semaphore"
Acquire(i) ==
    /\ pc = "batch"
    /\ pos[i] = "new"
    /\ MayStart(cur_model, i)
    /\ semaphore > 0
    /\ IF SleepsFirst(cur_model, i)
       THEN /\ Apply(i, [pos |-> "sleep", result |-> NoResult, tokens |-> 0, calls |-> 0,
                          returned |-> <<>>], FALSE)
            /\ slept' = [slept EXCEPT ![i] = RateLimitDelay(cur_model)]
       ELSE /\ \E getFails \in BOOLEAN :
                 Apply(i, FirstCall(cur_model, cache, now, use_cache, getFails), FALSE)
            /\ slept' = slept
    /\ UNCHANGED <<config, cache, now, pc, mi, cap, all_calls, main_task, all_results>>

\* asyncio.sleep(rate_limit_delay) is over
Wake(i) ==
    /\ pc = "batch"
    /\ pos[i] = "sleep"
    /\ \E getFails \in BOOLEAN :
         Apply(i, FirstCall(cur_model, cache, now, use_cache, getFails), TRUE)
    /\ UNCHANGED <<config, cache, now, pc, mi, slept, cap, all_calls, main_task, all_results>>

\* what the capability gave: a timeout, an exception, a refusal text or other content
KindOfReply(reply) == IF reply.kind = "content" /\ reply.refusal THEN "refusal" ELSE reply.kind

\* the capability answers the request limited_query(i) has in flight
Reply(i) ==
    /\ pc = "batch"
    /\ pos[i] \in {"q1", "q2"}
    /\ \E reply \in Replies, setFails \in BOOLEAN, getFails \in BOOLEAN :
         LET f == QueryModelFinish(cache, now, cur_model, BatchPrompt, reply, use_cache, setFails)
             attempt == IF pos[i] = "q1" THEN 1 ELSE 2 IN
         /\ cache' = f.cache
         /\ cap' = [cap EXCEPT ![i] = Append(@, KindOfReply(reply))]
         /\ Apply(i, AfterResult(cur_model, attempt, f.result, f.cache, now, use_cache, getFails, 0), TRUE)
    /\ UNCHANGED <<config, now, pc, mi, slept, all_calls, main_task, all_results>>

\* the record made of an exception that limited_query(i) raised
ExceptionRecord(m, i, e) ==
    [Result(m, "error", Null, e.error, Null, "") EXCEPT !.iteration = i]

\* mutant: exceptions are filtered out instead of becoming error records
IsNotException(r) == r.py # "Exception"

ValidResultsDropped(m, res) == SelectSeq([i \in 1..iterations |-> res[i]], IsNotException)

\* valid_results: the results in order, exceptions replaced by error records
ValidResults(m, res) ==
    [i \in 1..iterations |->
        IF res[i].py = "Exception" THEN ExceptionRecord(m, i, res[i]) ELSE res[i]]

\* progress.update(main_task, advance=iterations)
AdvanceMainTask(counter, n) == counter + n

\* _run_model_batch returns; the loop extends all_results and moves on
CollectModel ==
    /\ pc = "batch"
    /\ \A i \in Tasks : pos[i] \in Finished
    /\ all_results' = all_results \o ValidResults(cur_model, results)
    /\ main_task' = AdvanceMainTask(main_task, iterations)
    /\ mi' = mi + 1
    /\ pc' = "loop"
    /\ pos' = [i \in Tasks |-> "idle"]
    /\ results' = [i \in Tasks |-> NoResult]
    /\ all_calls' = all_calls \o [i \in 1..iterations |-> calls[i]]
    /\ calls' = [i \in Tasks |-> 0]
    /\ trace' = [i \in Tasks |-> <<>>]
    /\ cap' = [i \in Tasks |-> <<>>]
    /\ UNCHANGED <<config, cache, now, req_tokens, slept, semaphore, model_task>>

\* the loop is over: forecast_result is returned
Return ==
    /\ pc = "loop"
    /\ mi > Len(models)
    /\ pc' = "returned"
    /\ UNCHANGED <<config, cache, now, mi, pos, results, calls, req_tokens, slept, trace, cap,
                   all_calls, semaphore, model_task, main_task, all_results>>

Next ==
    \/ TestConnection
    \/ TestReply
    \/ StartModel
    \/ \E i \in Tasks : Acquire(i)
    \/ \E i \in Tasks : Wake(i)
    \/ \E i \in Tasks : Reply(i)
    \/ CollectModel
    \/ Return

Spec == Init /\ [][Next]_vars

(* ------------------- properties of the batch (Spec) -------------------- *)
ErrorFamily == {"timeout", "rate_limited", "not_found", "invalid_model", "error"}

TotalQueries == Len(models) * iterations

\* the record of iteration i of the k-th source, once collected
RecordOf(k, i) == all_results[(k - 1) * iterations + i]

\* all_results holds exactly one record per (source, iteration) pair
OnePerPair ==
    /\ Len(all_results) = TotalQueries
    /\ \A k \in 1..Len(models), i \in 1..iterations :
         /\ RecordOf(k, i).py = "dict"
         /\ RecordOf(k, i).model = models[k]
         /\ RecordOf(k, i).iteration = i

C2_FailuresBecomeRecords ==
    /\ \A i \in Tasks :
         (pos[i] = "done" /\ cap[i] # <<>> /\ cap[i][Len(cap[i])] \in {"timeout", "exception"})
         => /\ results[i].py = "dict"
            /\ results[i].status \in ErrorFamily
            /\ results[i].error # <<>>
            /\ results[i].probability = Null
    /\ pc = "raised" => mi = 1 /\ all_results = <<>> /\ \A i \in Tasks : pos[i] = "idle"
    /\ pc = "returned" =>
         /\ Len(all_calls) = TotalQueries
         /\ \A n \in 1..Len(all_calls) : all_calls[n] >= 1

\* the first query failed, and the second one was still issued and answered
C2_Witness ==
    /\ pc = "returned"
    /\ Len(all_results) = 2
    /\ all_results[1].status = "not_found"
    /\ all_results[2].status = "success"
    /\ all_results[2].response_source = "api"

\* C3 as stated: the per-source counter is advanced once per completed query,
\* failed ones included and retries not counted, so that it equals the number
\* of finished queries at every moment and I at the end, and the overall
\* counter ends at S*I.
C3_ProgressExact ==
    /\ pc = "batch" => model_task[mi] = Cardinality({i \in Tasks : pos[i] \in Finished})
    /\ pc = "returned" =>
         /\ \A k \in 1..Len(models) : model_task[k] = iterations
         /\ main_task = TotalQueries

\* C4: query_model is invoked at most twice per (source, iteration); the
\* second invocation follows an empty_response of the first, for a free-tier
\* source only; a second empty reply is kept as the iteration's record.
C4_RetryOnce ==
    /\ \A i \in Tasks :
         /\ calls[i] <= 2
         /\ calls[i] = 2 => (IsFreeModel(cur_model) /\ trace[i] # <<>> /\ trace[i][1] = "empty_response")
         /\ (pc = "batch" /\ ~IsFreeModel(cur_model)) => calls[i] <= 1
         /\ trace[i] = <<"empty_response", "empty_response">> =>
                (pos[i] = "done" /\ results[i].py = "dict" /\ results[i].status = "empty_response")
    /\ \A n \in 1..Len(all_calls) : all_calls[n] \in {1, 2}
    /\ \A n \in 1..Len(all_results) :
         all_calls[n] = 2 => IsFreeModel(all_results[n].model)

\* a free-tier query answered empty twice, kept as an empty_response record
C4_Witness ==
    \E i \in Tasks :
        /\ pc = "batch"
        /\ trace[i] = <<"empty_response", "empty_response">>
        /\ calls[i] = 2
        /\ results[i].status = "empty_response"

InFlight == {i \in Tasks : pos[i] \in {"q1", "q2"}}

\* C7: the queries in flight for a non-free source never outnumber
\* concurrent_requests.
C7_BoundedInFlight ==
    (pc = "batch" /\ ~IsFreeModel(cur_model)) => Cardinality(InFlight) <= concurrent_requests

\* the limit binds: it is reached while another query waits for a permit
C7_Witness ==
    /\ pc = "batch"
    /\ ~IsFreeModel(cur_model)
    /\ Cardinality(InFlight) = concurrent_requests
    /\ \E i \in Tasks : pos[i] = "new"

\* C8 as stated: for a free-tier source at most one query is in flight,
\* iteration k+1 starts only after iteration k has finished, and a delay is
\* inserted before every iteration but the first.
C8_SequentialWithDelay ==
    (pc = "batch" /\ IsFreeModel(cur_model)) =>
        /\ Cardinality(InFlight) <= 1
        /\ \A i \in Tasks : pos[i] # "new" => \A j \in 1..(i - 1) : pos[j] \in Finished
        /\ \A i \in Tasks : (i > 1 /\ pos[i] # "new") => slept[i] > 0

\* C9: within one source the records carry the iteration numbers 1..N, each
\* once; a record carries the number of the query that produced it, also when
\* a later query finishes first and when the record is made of an exception.
C9_IterationNumbers ==
    /\ \A i \in Tasks : pos[i] = "done" => results[i].iteration = i
    /\ pc = "batch" => \A i \in Tasks : ValidResults(cur_model, results)[i].py = "dict"
                            => ValidResults(cur_model, results)[i].iteration = i
    /\ \A k \in 1..Len(models), i \in 1..iterations :
         (k - 1) * iterations + i <= Len(all_results) => RecordOf(k, i).iteration = i

\* the second query finished before the first, and the batch then ended
\* with an exception record in the first place
C9_Witness ==
    /\ pc = "batch"
    /\ iterations = 2
    /\ pos[1] = "q1"
    /\ pos[2] = "done"
    /\ results[2].iteration = 2

C9_WitnessException ==
    /\ pc = "returned"
    /\ Len(all_results) = 2
    /\ all_results[1].model = all_results[2].model
    /\ all_results[2].error = DbErrorStr
    /\ all_results[2].iteration = 2

(* -------------- query_model called directly (SpecClient) ---------------- *)
\* calls a caller makes in one exploration
MaxCalls == 3

BatchIdle ==
    /\ models = <<>>
    /\ iterations = 0
    /\ concurrent_requests = 1
    /\ pc = "none"
    /\ mi = 1
    /\ pos = <<>>
    /\ results = <<>>
    /\ calls = <<>>
    /\ req_tokens = <<>>
    /\ slept = <<>>
    /\ trace = <<>>
    /\ cap = <<>>
    /\ all_calls = <<>>
    /\ semaphore = 0
    /\ model_task = <<>>
    /\ main_task = 0
    /\ all_results = <<>>

InitClient ==
    /\ BatchIdle
    /\ JobIdle
    /\ ClientIdle
    /\ LibIdle
    /\ use_cache \in BOOLEAN
    /\ cache \in InitCaches
    /\ now = 0

\* await self.client.chat.completions.create(**request_params)
SendRequest(n) == n + 1

\* a caller invokes query_model(model, prompt, max_tokens=..., force_refresh=...)
ClientCall ==
    /\ cl_pc = "idle"
    /\ api_calls < MaxCalls
    /\ \E q \in QueriedPairs, force \in BOOLEAN, getFails \in BOOLEAN :
         LET e == QueryModelEnter(cache, now, q[1], q[2], 4000, use_cache, force, getFails)
             key == GenerateCacheKey(q[1], q[2]) IN
         /\ cl_req' = [model |-> q[1], prompt |-> q[2], max_tokens |-> e.tokens,
                       force_refresh |-> force]
         /\ cl_pc' = IF e.outcome = "miss" THEN "inflight" ELSE "idle"
         /\ cl_ret' = e.result
         /\ api_calls' = IF e.outcome = "miss" THEN SendRequest(api_calls) ELSE api_calls
         /\ cl_info' = [how |-> e.outcome, row |-> cache[key], at |-> now,
                        invoked |-> (e.outcome = "miss"), wrote |-> FALSE]
    /\ UNCHANGED <<libVars, batchVars, jobVars, use_cache, cache, now>>

\* the capability answers the caller's request
ClientReply ==
    /\ cl_pc = "inflight"
    /\ \E reply \in Replies, setFails \in BOOLEAN :
         LET f == QueryModelFinish(cache, now, cl_req.model, cl_req.prompt, reply, use_cache, setFails) IN
         /\ cache' = f.cache
         /\ cl_ret' = f.result
         /\ cl_info' = [cl_info EXCEPT !.how = "api", !.wrote = f.stored]
    /\ cl_pc' = "idle"
    /\ UNCHANGED <<libVars, batchVars, jobVars, cl_req, api_calls, use_cache, now>>

\* time passes
Tick ==
    /\ now < MaxNow
    /\ now' = now + 1
    /\ UNCHANGED <<libVars, batchVars, clientVars, jobVars, use_cache, cache>>

NextClient ==
    \/ ClientCall
    \/ ClientReply
    \/ Tick

SpecClient == InitClient /\ [][NextClient]_vars

\* the row has not reached its expiry time
Unexpired(row, t) == row.present /\ row.expires_at > t

C6_OnlySuccessStored ==
    /\ (cl_info.how = "api" /\ use_cache) => (cl_info.wrote <=> cl_ret.status = "success")
    /\ (cl_info.how = "api" /\ ~use_cache) => ~cl_info.wrote
    /\ \A k \in CacheKeys : cache[k].present => cache[k].response.status = "success"
    /\ cl_info.how = "hit" => cl_ret.status = "success"

\* a rejected reply came back and the store still has no row for it
C6_Witness ==
    /\ cl_info.how = "api"
    /\ use_cache
    /\ cl_ret.status = "rejected"
    /\ ~cache[GenerateCacheKey(cl_req.model, cl_req.prompt)].present

(* ------------------ the web forecast job (SpecJob) --------------------- *)
\* one entry of model_results
JobEntry(m, probability, status) == [model |-> m, probability |-> probability, status |-> status]

\* if result.get('probability') is not None: model_results.append(...)
AppendIfProbability(mr, m, result) ==
    IF result.probability # Null
    THEN Append(mr, JobEntry(m, result.probability, result.status))
    ELSE mr

\* progress = 30 + int((i + 1) / total_models * 50), i counting from 0
LoopProgress(i, total) == 30 + ((i * 50) \div total)

\* round(sum(probabilities) / len(probabilities), 1), in tenths
RECURSIVE SumProbabilities(_)
SumProbabilities(entries) ==
    IF entries = <<>> THEN 0 ELSE entries[1].probability + SumProbabilities(Tail(entries))

calculate_ensemble_probability(entries) ==
    IF entries = <<>> THEN 0
    ELSE (20 * SumProbabilities(entries) + Len(entries)) \div (2 * Len(entries))

HasProbability(entry) == entry.probability # Null

\* run_forecast after its loop: "completed" with a result, or "failed"
Finalize(mr) ==
    LET valid_results == SelectSeq(mr, HasProbability) IN
    IF valid_results = <<>>
    THEN [pc |-> "done", i |-> 0, model_results |-> mr, status |-> "failed", progress |-> 85,
          result |-> NoJobResult, error |-> "No valid model results obtained", set |-> TRUE]
    ELSE [pc |-> "done", i |-> 0, model_results |-> mr, status |-> "completed", progress |-> 100,
          result |-> [present |-> TRUE,
                      ensemble_probability |-> calculate_ensemble_probability(valid_results),
                      successful_queries |-> Len(valid_results),
                      total_queries |-> Len(job_models),
                      detailed_results |-> mr],
          error |-> "", set |-> TRUE]

\* run_forecast from the head of its loop at index i up to its next
\* suspension: the cancel check, then query_model, whose cache hits and
\* raised lookups do not suspend; `set` tells whether status, result and
\* error are assigned
RECURSIVE RunLoop(_, _, _, _, _, _)
RunLoop(i, mr, progress, status, c, getFails) ==
    IF i > Len(job_models) THEN Finalize(mr)
    ELSE IF status = "cancelled"
    THEN [pc |-> "stopped", i |-> i, model_results |-> mr, status |-> status,
          progress |-> progress, result |-> NoJobResult, error |-> "", set |-> FALSE]
    ELSE LET e == QueryModelEnter(c, now, job_models[i], BatchPrompt, 1000, use_cache, FALSE, getFails) IN
         CASE e.outcome = "raise" ->
                RunLoop(i + 1, Append(mr, JobEntry(job_models[i], Null, "error")), progress,
                        status, c, getFails)
           [] e.outcome = "hit" ->
                RunLoop(i + 1, AppendIfProbability(mr, job_models[i], e.result),
                        LoopProgress(i, Len(job_models)), status, c, getFails)
           [] OTHER ->
                [pc |-> "query", i |-> i, model_results |-> mr, status |-> status,
                 progress |-> progress, result |-> NoJobResult, error |-> "", set |-> FALSE]

\* the assignments of a stretch of run_forecast that ends in r
JobApply(r) ==
    /\ job_pc' = r.pc
    /\ job_i' = r.i
    /\ model_results' = r.model_results
    /\ job_progress' = r.progress
    /\ job_status' = IF r.set THEN r.status ELSE job_status
    /\ job_result' = IF r.set THEN r.result ELSE job_result
    /\ job_error' = IF r.set THEN r.error ELSE job_error

InitJob ==
    /\ BatchIdle
    /\ ClientIdle
    /\ JobIdle
    /\ LibIdle
    /\ use_cache = TRUE
    /\ cache \in InitCaches
    /\ now = 0

\* POST /api/forecast: the entry is created and run_forecast is scheduled
create_forecast ==
    /\ job_pc = "none"
    /\ job_pc' = "queued"
    /\ job_models' \in {<<PaidModel>>, <<PaidModel, FreeModel>>, <<FreeModel, PaidModel>>}
    /\ job_status' = "running"
    /\ job_progress' = 0
    /\ job_result' = NoJobResult
    /\ job_error' = ""
    /\ UNCHANGED <<libVars, batchVars, clientVars, job_i, model_results, use_cache, cache, now>>

\* POST /api/forecast/{id}/cancel
cancel_forecast ==
    /\ job_pc # "none"
    /\ job_status' = "cancelled"
    /\ UNCHANGED <<libVars, batchVars, clientVars, job_pc, job_models, job_i, job_progress, job_result,
                   job_error, model_results, use_cache, cache, now>>

\* the background task starts: progress 10, 20, 30, then the loop
run_forecast ==
    /\ job_pc = "queued"
    /\ \E getFails \in BOOLEAN : JobApply(RunLoop(1, <<>>, 30, job_status, cache, getFails))
    /\ UNCHANGED <<libVars, batchVars, clientVars, job_models, use_cache, cache, now>>

\* the capability answers the job's request; the loop goes on
JobReply ==
    /\ job_pc = "query"
    /\ \E reply \in Replies, setFails \in BOOLEAN, getFails \in BOOLEAN :
         LET f == QueryModelFinish(cache, now, job_models[job_i], BatchPrompt, reply, use_cache, setFails) IN
         /\ cache' = f.cache
         /\ JobApply(RunLoop(job_i + 1, AppendIfProbability(model_results, job_models[job_i], f.result),
                             LoopProgress(job_i, Len(job_models)), job_status, f.cache, getFails))
    /\ UNCHANGED <<libVars, batchVars, clientVars, job_models, use_cache, now>>

NextJob ==
    \/ create_forecast
    \/ cancel_forecast
    \/ run_forecast
    \/ JobReply
    \/ Tick

SpecJob == InitJob /\ [][NextJob]_vars

\* C10 as stated: a job cancelled while running stops before the next
\* source, having let the query in flight finish, and the caller gets the
\* results that had completed by then.
C10_CancelReturnsCompleted ==
    job_pc = "stopped" =>
        /\ job_i <= Len(job_models)
        /\ Len(model_results) <= job_i - 1
        /\ model_results # <<>> =>
              (job_result.present /\ job_result.detailed_results = model_results)

(* ------------------------ _extract_probability ------------------------- *)
\* longest reply text, in tokens
MaxText == 3

\* A reply text is a sequence of tokens, written with one space between two
\* tokens and none around a line break.  The numbers are even so that the
\* midpoint of a range is a whole number.
Numbers == {"0", "30", "150"}

Alphabet == Numbers \cup {"HAUPTPROGNOSE:", "PROGNOSE:", "=", "%", "-", "\n", "chance"}

Texts == UNION {[1..n -> Alphabet] : n \in 0..MaxText}

\* float(match.group(1))
NumVal(tok) == CASE tok = "0" -> 0 [] tok = "30" -> 30 [] tok = "150" -> 150 [] OTHER -> Null

\* \d+(?:\.\d+)?
IsNum(tok) == tok \in Numbers

TokLen(tok) ==
    CASE tok = "HAUPTPROGNOSE:" -> 14 [] tok = "PROGNOSE:" -> 9 [] tok = "chance" -> 6
      [] tok = "150" -> 3 [] tok = "30" -> 2 [] OTHER -> 1

RECURSIVE CharLen(_)
\* len(content)
CharLen(text) ==
    IF text = <<>> THEN 0
    ELSE IF Len(text) = 1 THEN TokLen(text[1])
    ELSE TokLen(text[1]) + CharLen(Tail(text))
         + (IF text[1] = "\n" \/ text[2] = "\n" THEN 0 ELSE 1)

SetMin(S) == CHOOSE x \in S : \A y \in S : x <= y

SetMax(S) == CHOOSE x \in S : \A y \in S : x >= y

\* if 0 <= value <= 100
InBounds(value) == 0 <= value /\ value <= 100

RECURSIVE SkipWs(_, _)
\* \s* from position i on: where the next token that is not white space stands
SkipWs(text, i) == IF i <= Len(text) /\ text[i] = "\n" THEN SkipWs(text, i + 1) ELSE i

\* the number token at position i is followed by \s*%
PercentFollows(text, i) ==
    LET k == SkipWs(text, i + 1) IN k <= Len(text) /\ text[k] = "%"

\* positions of a keyword followed by \s*(\d+(?:\.\d+)?)
KwNum(text, kws) ==
    {i \in 1..Len(text) : /\ text[i] \in kws
                          /\ LET j == SkipWs(text, i + 1) IN j <= Len(text) /\ IsNum(text[j])}

\* positions of a keyword followed by \s*(\d+(?:\.\d+)?)\s*%
KwNumPct(text, kws) == {i \in KwNum(text, kws) : PercentFollows(text, SkipWs(text, i + 1))}

\* group(1) of the match that starts with the keyword at position i
Captured(text, i) == NumVal(text[SkipWs(text, i + 1)])

\* one list of section patterns (HAUPTPROGNOSE: or PROGNOSE:): the pattern with
\* a % sign, then the one without; re.search gives the leftmost match of each,
\* and a value out of bounds passes on to the next pattern.  The two bold
\* markdown patterns need "**", which no text of Alphabet contains.
SectionRule(text, kws) ==
    LET a == KwNumPct(text, kws)
        d == KwNum(text, kws)
    IN IF a # {} /\ InBounds(Captured(text, SetMin(a))) THEN Captured(text, SetMin(a))
       ELSE IF d # {} /\ InBounds(Captured(text, SetMin(d))) THEN Captured(text, SetMin(d))
       ELSE Null

\* $ under re.MULTILINE, right after position i - 1
EndOfLine(text, i) == i > Len(text) \/ text[i] = "\n"

\* matches of =\s*(\d+(?:\.\d+)?)\s*(?:%)?$
EqualsNumAtEnd(text) ==
    {i \in KwNum(text, {"="}) :
        LET j == SkipWs(text, i + 1)
            k == SkipWs(text, j + 1)
        IN \/ EndOfLine(text, j + 1)
           \/ (k <= Len(text) /\ text[k] = "%" /\ EndOfLine(text, k + 1))}

\* final_prob_patterns and formula_patterns: the last match of re.findall, kept
\* only when in bounds.  The patterns with Final_Probability, Antwort:,
\* Ergebnis: and the division sign need words no text of Alphabet contains.
CalculationRule(text) ==
    LET m == EqualsNumAtEnd(text) IN
    IF m # {} /\ InBounds(Captured(text, SetMax(m))) THEN Captured(text, SetMax(m)) ELSE Null

RECURSIVE SplitLines(_, _)
\* content.split('\n'), from position i on
SplitLines(text, i) ==
    IF i > Len(text) THEN << <<>> >>
    ELSE LET rest == SplitLines(text, i + 1) IN
         IF text[i] = "\n" THEN << <<>> >> \o rest
         ELSE << <<text[i]>> \o Head(rest) >> \o Tail(rest)

\* the tokens that end with a colon; each holds the pattern "prognose:" in
\* lower case
ColonTokens == {"HAUPTPROGNOSE:", "PROGNOSE:"}

HasKeyword(line) == \E i \in 1..Len(line) : line[i] \in ColonTokens

\* line.split(":")[-1].strip()
AfterLastColon(line) ==
    LET c == {i \in 1..Len(line) : line[i] \in ColonTokens} IN
    IF c = {} THEN line ELSE SubSeq(line, SetMax(c) + 1, Len(line))

\* the text the probability is read from for the keyword line i: the rest of
\* the line, or one of the next two lines; found is FALSE for "continue"
ProbText(lines, i) ==
    IF Contains(lines[i], "%") THEN [found |-> TRUE, text |-> AfterLastColon(lines[i])]
    ELSE IF i + 1 <= Len(lines) /\ Contains(lines[i + 1], "%")
    THEN [found |-> TRUE, text |-> lines[i + 1]]
    ELSE IF i + 2 <= Len(lines) /\ Contains(lines[i + 2], "%")
    THEN [found |-> TRUE, text |-> lines[i + 2]]
    ELSE [found |-> FALSE, text |-> <<>>]

NotPercent(tok) == tok # "%"

\* what one keyword line returns (Null: nothing, the loop goes on): a
\* percentage in bounds, else the midpoint of a range, else a single number
ProbTextValue(prob_text) ==
    LET pm == {j \in 1..(Len(prob_text) - 1) : IsNum(prob_text[j]) /\ prob_text[j + 1] = "%"}
        stripped == SelectSeq(prob_text, NotPercent)
        numbers == SelectSeq(stripped, IsNum)
    IN IF pm # {} /\ InBounds(NumVal(prob_text[SetMin(pm)])) THEN NumVal(prob_text[SetMin(pm)])
       ELSE IF Contains(stripped, "-") /\ Len(numbers) >= 2
       THEN (NumVal(numbers[1]) + NumVal(numbers[2])) \div 2
       ELSE IF numbers # <<>>
       THEN (LET value == NumVal(numbers[1]) IN
             IF 0 < value /\ value <= 1 /\ ~Contains(stripped, "%") THEN value * 100
             ELSE IF InBounds(value) THEN value
             ELSE Null)
       ELSE Null

RECURSIVE ForecastFrom(_, _)
\* for i, line in enumerate(lines), from line i on
ForecastFrom(lines, i) ==
    IF i > Len(lines) THEN Null
    ELSE IF HasKeyword(lines[i]) /\ ProbText(lines, i).found
              /\ ProbTextValue(ProbText(lines, i).text) # Null
    THEN ProbTextValue(ProbText(lines, i).text)
    ELSE ForecastFrom(lines, i + 1)

\* the forecast section keywords; of forecast_patterns only "prognose:" occurs
\* in a text of Alphabet
ForecastSectionRule(text) ==
    IF HasKeyword(text) THEN ForecastFrom(SplitLines(text, 1), 1) ELSE Null

\* matches of (\d+(?:\.\d+)?)\s*% anywhere in the content
NumPct(text) == {j \in 1..Len(text) : IsNum(text[j]) /\ PercentFollows(text, j)}

\* percentage_patterns: return float(matches[-1]) of the first pattern that
\* matches.  Every pattern but the two with "percent" and "Final_Probability"
\* ends in (\d+(?:\.\d+)?)\s*%, so the first pattern matches whenever one of
\* them does, and it is the one whose last match is returned.
PercentageRule(text) ==
    LET m == NumPct(text) IN IF m # {} THEN NumVal(text[SetMax(m)]) ELSE Null

\* the standalone numbers of content[-500:], from the end backwards
LastResortRule(text) ==
    LET ok == {j \in 1..Len(text) : IsNum(text[j]) /\ InBounds(NumVal(text[j]))} IN
    IF ok # {} THEN NumVal(text[SetMax(ok)]) ELSE Null

FirstNonNull(values) ==
    LET hit == {i \in 1..Len(values) : values[i] # Null} IN
    IF hit = {} THEN Null ELSE values[SetMin(hit)]

\* _extract_probability: the fallback chain, the first rule that returns wins.
\* The DeepSeek, Qwen and JSON patterns need words no text of Alphabet holds.
ExtractProbability(content, model) ==
    IF content = <<>> THEN Null
    ELSE FirstNonNull(<<SectionRule(content, {"HAUPTPROGNOSE:"}),
                        SectionRule(content, ColonTokens),
                        CalculationRule(content),
                        ForecastSectionRule(content),
                        PercentageRule(content),
                        CalculationRule(content),
                        LastResortRule(content)>>)

\* what a function called directly returned
Returned(fn, value) == [done |-> TRUE, fn |-> fn, value |-> value]

\* response.choices[0].message.content as query_model reads it: its length,
\* the extracted value, and no rejection phrase (none is in Alphabet)
ReplyOfText(text, model) ==
    [kind |-> "content", length |-> CharLen(text), refusal |-> FALSE,
     value |-> ExtractProbability(text, model), error_str |-> <<>>]

InitExtract ==
    /\ BatchIdle
    /\ ClientIdle
    /\ JobIdle
    /\ use_cache = FALSE
    /\ cache = EmptyCache
    /\ now = 0
    /\ fn_args \in {[fn |-> "query_model", content |-> t, model |-> PaidModel] : t \in Texts}
    /\ fn_ret = NotReturned
    /\ fn_calls = 0
    /\ historical_performance = <<>>
    /\ calibrator = NoCalibrator

\* self._extract_probability(content, model), called on its own
extract_probability ==
    /\ ~fn_ret.done
    /\ fn_ret' = Returned("_extract_probability",
                          ExtractProbability(fn_args.content, fn_args.model))
    /\ UNCHANGED <<batchVars, clientVars, jobVars, fn_args, fn_calls, historical_performance,
                   calibrator, use_cache, cache, now>>

\* query_model from the reply text on: the empty check, the extraction, the
\* final validation and the record
ParseReply ==
    /\ ~fn_ret.done
    /\ fn_ret' = Returned("query_model",
                          QueryModelFinish(cache, now, fn_args.model, BatchPrompt,
                                           ReplyOfText(fn_args.content, fn_args.model),
                                           use_cache, FALSE).result)
    /\ UNCHANGED <<batchVars, clientVars, jobVars, fn_args, fn_calls, historical_performance,
                   calibrator, use_cache, cache, now>>

NextExtract == extract_probability \/ ParseReply

SpecExtract == InitExtract /\ [][NextExtract]_vars

\* C11: every record query_model makes of a reply text has a non-empty text
\* when its status is success, and a probability that is either None or
\* within [0, 100], whichever rule of the extractor produced the value.
C11_RecordInvariant ==
    (fn_ret.done /\ fn_ret.fn = "query_model") =>
        /\ fn_ret.value.status = "success" => fn_ret.value.content > 0
        /\ fn_ret.value.probability # Null => InBounds(fn_ret.value.probability)

\* a reply whose extracted value is out of bounds became a success record
\* without a probability
C11_Witness ==
    /\ fn_ret.done
    /\ fn_ret.fn = "query_model"
    /\ fn_ret.value.status = "success"
    /\ fn_ret.value.probability = Null
    /\ ExtractProbability(fn_args.content, fn_args.model) = 150

\* C12: the probability extractor returns None or a value within [0, 100]; a
\* value out of bounds matched by any rule of the chain is discarded.
C12_ExtractorBounded ==
    (fn_ret.done /\ fn_ret.fn = "_extract_probability") =>
        (fn_ret.value = Null \/ InBounds(fn_ret.value))

(* ------------------------- BayesianAggregator -------------------------- *)
\* a float x of the 0-1 range is the fixed-point number round(x * Scale); a
\* percentage f of the 0-100 range is f * Scale / 100, in hundredths of a
\* percent, so that f and the probability f / 100.0 have the same numeral
Scale == 10000

\* a whole percentage as a fixed-point number
Pct(f) == f * (Scale \div 100)

Mul(a, b) == (a * b) \div Scale

Div(a, b) == (a * Scale + b \div 2) \div b

Abs(x) == IF x < 0 THEN 0 - x ELSE x

RECURSIVE SumSeq(_)
SumSeq(s) == IF s = <<>> THEN 0 ELSE Head(s) + SumSeq(Tail(s))

LessThan(a, b) == a < b

Sorted(s) == SortSeq(s, LessThan)

\* twice np.median(s)
Median2(s) ==
    LET x == Sorted(s)
        n == Len(s)
    IN IF n % 2 = 1 THEN 2 * x[(n + 1) \div 2] ELSE x[n \div 2] + x[n \div 2 + 1]

\* four times np.percentile(s, 25 * quarters), by linear interpolation
Percentile4(s, quarters) ==
    LET x == Sorted(s)
        pos4 == (Len(s) - 1) * quarters
        lo == pos4 \div 4 + 1
        r == pos4 % 4
    IN IF r = 0 THEN 4 * x[lo] ELSE 4 * x[lo] + r * (x[lo + 1] - x[lo])

NoOutliers(n) == [i \in 1..n |-> FALSE]

\* _detect_outliers: the modified z-score 0.6745 * (p - median) / mad against
\* outlier_threshold = 2.5, or the 1.5 * IQR fences when the MAD is 0; both
\* tests are written without the division, so they are exact
DetectOutliers(p) ==
    IF Len(p) < 3 THEN NoOutliers(Len(p))
    ELSE LET med2 == Median2(p)
             dev2 == [i \in 1..Len(p) |-> Abs(2 * p[i] - med2)]
             mad4 == Median2(dev2)
             q1 == Percentile4(p, 1)
             q3 == Percentile4(p, 3)
             iqr == q3 - q1
         IN IF mad4 > 0 THEN [i \in 1..Len(p) |-> 6745 * 2 * dev2[i] > 25000 * mad4]
            ELSE IF iqr > 0
            THEN [i \in 1..Len(p) |-> \/ 8 * p[i] < 2 * q1 - 3 * iqr
                                       \/ 8 * p[i] > 2 * q3 + 3 * iqr]
            ELSE NoOutliers(Len(p))

\* np.sum(outlier_mask)
CountTrue(mask) == Cardinality({i \in 1..Len(mask) : mask[i]})

\* errors[-20:]
LastTwenty(errors) ==
    IF Len(errors) <= 20 THEN errors ELSE SubSeq(errors, Len(errors) - 19, Len(errors))

\* perf["avg_error"], the mean of the last 20 errors
AvgError(errors) == SumSeq(LastTwenty(errors)) \div Len(LastTwenty(errors))

\* the errors tracked for an expert; <<>> when the expert is not in the history
ErrorsOf(hist, id) == IF id \in DOMAIN hist THEN hist[id] ELSE <<>>

\* hist_weight = 1.0 / (1.0 + perf.get("avg_error", 0.5)), 1 for a new expert
HistWeight(hist, id) ==
    IF ErrorsOf(hist, id) = <<>> THEN Scale ELSE Div(Scale, Scale + AvgError(ErrorsOf(hist, id)))

\* weights before the refinement: confidence, outlier penalty 0.1, history
BaseWeights(expert_ids, confidences, mask, hist) ==
    [i \in 1..Len(confidences) |->
        Mul(IF mask[i] THEN confidences[i] \div 10 ELSE confidences[i],
            HistWeight(hist, expert_ids[i]))]

\* np.average(probabilities, weights=weights); the caller tests for a zero sum
WeightedMean(p, w) == SumSeq([i \in 1..Len(p) |-> p[i] * w[i]]) \div SumSeq(w)

\* one pass of the agreement loop: weights *= 1 / (1 + distances * 5)
Refine(p, w) ==
    [i \in 1..Len(p) |-> Mul(w[i], Div(Scale, Scale + 5 * Abs(p[i] - WeightedMean(p, w))))]

\* _calculate_expert_weights; raised when np.average finds the weights sum to
\* zero (ZeroDivisionError)
CalculateExpertWeights(p, expert_ids, confidences, mask, hist) ==
    LET w0 == BaseWeights(expert_ids, confidences, mask, hist)
        w1 == Refine(p, w0)
        w2 == Refine(p, w1)
        w3 == Refine(p, w2)
    IN IF SumSeq(w0) = 0 \/ SumSeq(w1) = 0 \/ SumSeq(w2) = 0 \/ SumSeq(w3) = 0
       THEN [raised |-> TRUE, weights |-> <<>>]
       ELSE [raised |-> FALSE, weights |-> [i \in 1..Len(p) |-> Div(w3[i], SumSeq(w3))]]

\* _bayesian_pool: the mean of Beta(alpha_post, beta_post) with
\* prior_strength = 1.0 and n_virtual_samples = 10
BayesianPool(p, w) ==
    LET alpha_post == Scale + (10 * SumSeq([i \in 1..Len(p) |-> p[i] * w[i]])) \div Scale
        beta_post == Scale + (10 * SumSeq([i \in 1..Len(p) |-> (Scale - p[i]) * w[i]])) \div Scale
    IN [mean |-> Div(alpha_post, alpha_post + beta_post), alpha |-> alpha_post,
        beta |-> beta_post]

\* _update_expert_performance: each expert's error against the consensus
UpdateExpertPerformance(hist, expert_ids, p, consensus) ==
    LET ids == {expert_ids[i] : i \in 1..Len(expert_ids)}
        \* zip(): later entries of the same expert are appended after earlier ones
        Added(id) == [k \in 1..Cardinality({i \in 1..Len(p) : expert_ids[i] = id}) |->
                        LET i == CHOOSE j \in 1..Len(p) :
                                   /\ expert_ids[j] = id
                                   /\ Cardinality({h \in 1..j : expert_ids[h] = id}) = k
                        IN Abs(p[i] - consensus)]
    IN [id \in (DOMAIN hist) \cup ids |->
          IF id \in ids THEN ErrorsOf(hist, id) \o Added(id) ELSE hist[id]]

\* [f"expert_{i}" for i in range(len(forecasts))], named by position
DefaultExpertIds(n) == [i \in 1..n |-> i]

\* np.ones(len(forecasts))
DefaultConfidences(n) == [i \in 1..n |-> Scale]

\* aggregate_forecasts(forecasts, expert_ids, confidences) on history hist: the
\* result dictionary and the history after the call; np.array(forecasts) / 100.0
\* and mean * 100 change the unit and leave the numeral as it is
AggregateForecasts(forecasts, expert_ids, confidences, hist) ==
    IF forecasts = <<>>
    THEN [error |-> TRUE, raised |-> FALSE, aggregated_probability |-> Null,
          outliers_detected |-> 0, expert_weights |-> <<>>, hist |-> hist]
    ELSE LET p == forecasts
             mask == DetectOutliers(p)
             cw == CalculateExpertWeights(p, expert_ids, confidences, mask, hist)
             pool == BayesianPool(p, cw.weights)
         IN IF cw.raised
            THEN [error |-> FALSE, raised |-> TRUE, aggregated_probability |-> Null,
                  outliers_detected |-> CountTrue(mask), expert_weights |-> <<>>, hist |-> hist]
            ELSE [error |-> FALSE, raised |-> FALSE,
                  aggregated_probability |-> pool.mean,
                  outliers_detected |-> CountTrue(mask), expert_weights |-> cw.weights,
                  hist |-> UpdateExpertPerformance(hist, expert_ids, p, pool.mean)]

\* most calls of aggregate_forecasts on one aggregator
MaxAggCalls == 2

\* the forecast lists the aggregator is called with, in percent
Panels == {<<>>, <<90>>, <<10>>, <<10, 90>>, <<30, 32, 85>>, <<50, 50, 50, 90>>}

\* the confidences argument: None, one that falls with the position, all zero
ConfidenceChoices(n) ==
    {DefaultConfidences(n), [i \in 1..n |-> Scale \div i], [i \in 1..n |-> 0]}

InitBayes ==
    /\ BatchIdle
    /\ ClientIdle
    /\ JobIdle
    /\ LibIdle
    /\ use_cache = FALSE
    /\ cache = EmptyCache
    /\ now = 0

\* one call of BayesianAggregator.aggregate_forecasts
aggregate_forecasts ==
    /\ fn_calls < MaxAggCalls
    /\ \E forecasts \in Panels : \E confidences \in ConfidenceChoices(Len(forecasts)) :
         LET fs == [i \in 1..Len(forecasts) |-> Pct(forecasts[i])]
             r == AggregateForecasts(fs, DefaultExpertIds(Len(fs)), confidences,
                                     historical_performance)
         IN /\ fn_args' = [fn |-> "aggregate_forecasts", forecasts |-> fs,
                           confidences |-> confidences,
                           tracked |-> DOMAIN historical_performance]
            /\ fn_ret' = Returned("aggregate_forecasts", [r EXCEPT !.hist = <<>>])
            /\ historical_performance' = r.hist
    /\ fn_calls' = fn_calls + 1
    /\ UNCHANGED <<batchVars, clientVars, jobVars, calibrator, use_cache, cache, now>>

NextBayes == aggregate_forecasts

SpecBayes == InitBayes /\ [][NextBayes]_vars

SeqMin(s) == SetMin({s[i] : i \in 1..Len(s)})

SeqMax(s) == SetMax({s[i] : i \in 1..Len(s)})

\* C13: whenever aggregate_forecasts returns a posterior mean for a non-empty
\* list of forecasts, the mean lies within [min(forecasts), max(forecasts)].
C13_PosteriorWithinRange ==
    (fn_ret.done /\ fn_ret.fn = "aggregate_forecasts" /\ fn_args.forecasts # <<>>
     /\ ~fn_ret.value.raised) =>
        /\ SeqMin(fn_args.forecasts) <= fn_ret.value.aggregated_probability
        /\ fn_ret.value.aggregated_probability <= SeqMax(fn_args.forecasts)

(* --------------------------- ConsistencyScorer ------------------------- *)
\* most samples of one source
MaxSamples == 3

\* the predictions a source can give, in percent
SampleValues == {0, 30, 32, 85, 100}

SampleLists == UNION {[1..n -> {Pct(v) : v \in SampleValues}] : n \in 0..MaxSamples}

RECURSIVE IsqrtBetween(_, _, _)
\* the integer square root of n, known to lie in lo..hi
IsqrtBetween(n, lo, hi) ==
    IF lo >= hi THEN lo
    ELSE LET mid == (lo + hi + 1) \div 2 IN
         IF mid * mid <= n THEN IsqrtBetween(n, mid, hi) ELSE IsqrtBetween(n, lo, mid - 1)

\* np.mean
MeanOf(s) == (SumSeq(s) + Len(s) \div 2) \div Len(s)

\* np.std: the population standard deviation
StdOf(s) ==
    LET m == MeanOf(s)
        var == SumSeq([i \in 1..Len(s) |-> (s[i] - m) * (s[i] - m)]) \div Len(s)
    IN IsqrtBetween(var, 0, Pct(100))

\* np.clip(x, 0, 1)
ClipUnit(x) == IF x < 0 THEN 0 ELSE IF x > Scale THEN Scale ELSE x

\* np.histogram(samples, bins=np.linspace(0, 100, 11)): the bin of a sample,
\* the last bin closed on the right
BinOf(x) == IF x >= Pct(100) THEN 10 ELSE x \div Pct(10) + 1

\* -(k/n) * ln(k/n), for the fractions up to five samples give
EntropyTerm(k, n) ==
    CASE k = 0 \/ k = n -> 0
      [] 2 * k = n -> 3466
      [] 3 * k = n -> 3662
      [] 3 * k = 2 * n -> 2703
      [] 4 * k = n -> 3466
      [] 4 * k = 3 * n -> 2158
      [] 5 * k = n -> 3219
      [] 5 * k = 2 * n -> 3665
      [] 5 * k = 3 * n -> 3065
      [] 5 * k = 4 * n -> 1785

\* np.log(len(bins) - 1), ln 10
LnTen == 23026

\* scipy.stats.entropy(hist_norm + 1e-10)
HistEntropy(s) ==
    SumSeq([b \in 1..10 |-> EntropyTerm(Cardinality({i \in 1..Len(s) : BinOf(s[i]) = b}), Len(s))])

\* the direct method: 1 / (1 + std / mean)
DirectConsistency(s) ==
    IF MeanOf(s) > 0 THEN Div(Scale, Scale + Div(StdOf(s), MeanOf(s)))
    ELSE IF StdOf(s) = 0 THEN Scale ELSE 0

\* the indirect method: 1 - entropy / max_entropy
IndirectConsistency(s) == Scale - Div(HistEntropy(s), LnTen)

\* the ensemble method: the mean of the std, range and IQR scores
EnsembleConsistency(s) ==
    LET std_score == Div(Scale, Scale + 10 * StdOf(s))
        range_score == Scale - (SeqMax(s) - SeqMin(s))
        iqr4 == Percentile4(s, 3) - Percentile4(s, 1)
        iqr_score == Div(Scale, Scale + (5 * iqr4) \div 4)
    IN (std_score + range_score + iqr_score) \div 3

\* mutant: fewer than two samples score 0
FewSamplesScoreZero == 0 * Scale

\* return 1.0
FewSamplesScore == 1 * Scale

\* ConsistencyScorer(method).calculate_consistency(samples)
CalculateConsistency(samples, method) ==
    IF Len(samples) < 2 THEN FewSamplesScore
    ELSE ClipUnit(CASE method = "direct" -> DirectConsistency(samples)
                    [] method = "indirect" -> IndirectConsistency(samples)
                    [] method = "ensemble" -> EnsembleConsistency(samples)
                    [] OTHER -> Div(Scale, Scale + 100 * StdOf(samples)))

InitConsistency ==
    /\ BatchIdle
    /\ ClientIdle
    /\ JobIdle
    /\ use_cache = FALSE
    /\ cache = EmptyCache
    /\ now = 0
    /\ fn_args \in {[fn |-> "calculate_consistency", samples |-> x, method |-> m] :
                     x \in SampleLists, m \in {"direct", "indirect", "ensemble", "median"}}
    /\ fn_ret = NotReturned
    /\ fn_calls = 0
    /\ historical_performance = <<>>
    /\ calibrator = NoCalibrator

calculate_consistency ==
    /\ ~fn_ret.done
    /\ fn_ret' = Returned("calculate_consistency",
                          CalculateConsistency(fn_args.samples, fn_args.method))
    /\ UNCHANGED <<batchVars, clientVars, jobVars, fn_args, fn_calls, historical_performance,
                   calibrator, use_cache, cache, now>>

NextConsistency == calculate_consistency

SpecConsistency == InitConsistency /\ [][NextConsistency]_vars

C17_WitnessSpread ==
    /\ fn_ret.done
    /\ fn_ret.fn = "calculate_consistency"
    /\ Len(fn_args.samples) >= 2
    /\ fn_ret.value < Scale

(* --------------------------- _generate_summary -------------------------- *)
\* most iterations per source in a summarised batch
MaxSummaryIter == 2

SourceA == <<"A">>

SourceB == <<"B">>

SourceC == <<"C">>

\* the values each source gives: A near 30, B near 32, C near 85
ClusterValues(m) ==
    CASE m = SourceA -> {29, 31} [] m = SourceB -> {32} [] m = SourceC -> {85}

\* the records one query of a source can leave in the batch
RecordsOf(m) ==
    {ErrorResult(m, <<"connection", "reset">>)} \cup
    {Result(m, "success", v, <<>>, 50, "api") : v \in ClusterValues(m)}

\* the batches of I iterations of A, B and C, source by source
BatchesOf(I) ==
    {a \o b \o c : a \in [1..I -> RecordsOf(SourceA)], b \in [1..I -> RecordsOf(SourceB)],
                   c \in [1..I -> RecordsOf(SourceC)]}

ResultBatches == UNION {BatchesOf(I) : I \in 1..MaxSummaryIter}

RECURSIVE Dedupe(_)
\* the keys of model_groups, in insertion order
Dedupe(names) ==
    IF names = <<>> THEN <<>>
    ELSE LET rest == Dedupe(SubSeq(names, 1, Len(names) - 1)) IN
         IF Contains(rest, names[Len(names)]) THEN rest ELSE Append(rest, names[Len(names)])

ModelsUsed(rs) == Dedupe([i \in 1..Len(rs) |-> rs[i].model])

RECURSIVE ProbsFrom(_, _, _)
\* [r["probability"] for r in results if r.get("probability") is not None],
\* of the records of the models in ms from position i on
ProbsFrom(rs, ms, i) ==
    IF i > Len(rs) THEN <<>>
    ELSE IF rs[i].model \in ms /\ rs[i].probability # Null
    THEN <<Pct(rs[i].probability)>> \o ProbsFrom(rs, ms, i + 1)
    ELSE ProbsFrom(rs, ms, i + 1)

AllModels(rs) == {rs[i].model : i \in 1..Len(rs)}

ValidProbabilities(rs) == ProbsFrom(rs, AllModels(rs), 1)

ModelProbs(rs, m) == ProbsFrom(rs, {m}, 1)

\* the models that have at least one probability, in the order of model_groups
RECURSIVE WithProbs(_, _)
WithProbs(rs, ms) ==
    IF ms = <<>> THEN <<>>
    ELSE IF ModelProbs(rs, Head(ms)) # <<>> THEN <<Head(ms)>> \o WithProbs(rs, Tail(ms))
    ELSE WithProbs(rs, Tail(ms))

\* calibrate_batch returns a Python list
CalibrateBatchType == "list"

\* <value> * 100.0 raises TypeError for a list and scales an ndarray
TimesFloatRaises(type) == type = "list"

\* the calibration of one model's probabilities: the BatchCalibrator result, or
\* the temperature scaling of the except clause that replaces it
CalibrationMethod == IF TimesFloatRaises(CalibrateBatchType) THEN "temperature_scaling" ELSE "platt"

\* the keys of the dictionary aggregate_forecasts returns
AggregateKeys == {"aggregated_probability", "confidence_interval", "uncertainty",
                  "expert_weights", "outliers_detected", "method", "posterior_variance"}

\* dict.get(key, default)
DictGet(d, keys, key, default) == IF key \in keys THEN d[key] ELSE default

\* _apply_advanced_algorithms for a batch with model_predictions: consistency
\* per model, calibration (replaced by temperature scaling when it raises), the
\* Bayesian aggregation of the model means, and the advanced results.  The
\* calibrated values themselves need exp and log and are left out.
ApplyAdvancedAlgorithms(rs, valid) ==
    LET ms == WithProbs(rs, ModelsUsed(rs))
        model_weights == [k \in 1..Len(ms) |-> CalculateConsistency(ModelProbs(rs, ms[k]), "ensemble")]
        all_predictions == [k \in 1..Len(ms) |-> MeanOf(ModelProbs(rs, ms[k]))]
        bayesian_result == AggregateForecasts(all_predictions, ms, model_weights, <<>>)
        bayesian_prediction == DictGet(bayesian_result, AggregateKeys, "aggregated_forecast",
                                       MeanOf(all_predictions))
    IN IF ms = <<>> THEN [kind |-> "insufficient_data"]
       ELSE IF bayesian_result.raised THEN [kind |-> "fallback_to_basic"]
       ELSE [kind |-> "results",
             bayesian_ensemble |-> bayesian_prediction,
             calibrated_by |-> CalibrationMethod,
             model_consistency_scores |-> model_weights,
             basic_mean |-> MeanOf(valid),
             bayesian_weighted |-> bayesian_prediction]

\* mutant: the statistics are computed only from two probabilities on
HasSeveralProbabilities(valid) == Len(valid) > 1

\* if valid_probabilities:
HasValidProbabilities(valid) == valid # <<>>

\* _generate_summary(results)
GenerateSummary(rs) ==
    LET valid == ValidProbabilities(rs) IN
    [total_queries |-> Len(rs),
     successful_queries |-> Cardinality({i \in 1..Len(rs) : rs[i].status = "success"}),
     failed_queries |-> Cardinality({i \in 1..Len(rs) : rs[i].status # "success"}),
     models_used |-> ModelsUsed(rs),
     valid_probabilities |-> Len(valid),
     overall_stats |-> IF HasValidProbabilities(valid)
                       THEN [present |-> TRUE, mean |-> MeanOf(valid), std |-> StdOf(valid),
                             min |-> SeqMin(valid), max |-> SeqMax(valid), count |-> Len(valid)]
                       ELSE [present |-> FALSE],
     advanced_analysis |-> IF HasValidProbabilities(valid)
                           THEN ApplyAdvancedAlgorithms(rs, valid)
                           ELSE [kind |-> "absent"]]

\* the probabilities of the successful responses, and their models
RECURSIVE SuccessfulFrom(_, _)
SuccessfulFrom(rs, i) ==
    IF i > Len(rs) THEN <<>>
    ELSE IF rs[i].status = "success" /\ rs[i].probability # Null
    THEN <<rs[i]>> \o SuccessfulFrom(rs, i + 1)
    ELSE SuccessfulFrom(rs, i + 1)

\* ConsistencyScorer.calculate_weighted_aggregate(model_predictions)
CalculateWeightedAggregate(rs, ms) ==
    LET consistency == [k \in 1..Len(ms) |-> CalculateConsistency(ModelProbs(rs, ms[k]), "ensemble")]
        weight == [k \in 1..Len(ms) |-> Mul(consistency[k], consistency[k])]
        weighted_sum == SumSeq([k \in 1..Len(ms) |-> weight[k] * MeanOf(ModelProbs(rs, ms[k]))])
        total_weight == SumSeq(weight)
    IN IF total_weight > 0 THEN (weighted_sum + total_weight \div 2) \div total_weight
       ELSE IF ms # <<>> THEN MeanOf(ProbsFrom(rs, {ms[k] : k \in 1..Len(ms)}, 1))
       ELSE Pct(50)

\* the methods of ForecastAggregator whose result needs no exp or log
AggregatorMethods == {"simple", "consistency", "bayesian", "median"}

\* ForecastAggregator(method).calculate_ensemble_probability(responses): None,
\* or the ensemble probability
CalculateEnsembleProbability(responses, method) ==
    LET ok == SuccessfulFrom(responses, 1)
        valid_probabilities == [i \in 1..Len(ok) |-> Pct(ok[i].probability)]
        expert_ids == [i \in 1..Len(ok) |-> ok[i].model]
    IN IF valid_probabilities = <<>> THEN Null
       ELSE CASE method = "simple" -> MeanOf(valid_probabilities)
              [] method = "consistency" ->
                     CalculateWeightedAggregate(ok, WithProbs(ok, ModelsUsed(ok)))
              [] method = "bayesian" ->
                     AggregateForecasts(valid_probabilities, expert_ids,
                                        DefaultConfidences(Len(ok)), <<>>).aggregated_probability
              [] OTHER -> MeanOf(valid_probabilities)

InitSummary ==
    /\ BatchIdle
    /\ ClientIdle
    /\ JobIdle
    /\ use_cache = FALSE
    /\ cache = EmptyCache
    /\ now = 0
    /\ fn_args \in {[fn |-> "aggregate", results |-> rs] : rs \in ResultBatches}
    /\ fn_ret = NotReturned
    /\ fn_calls = 0
    /\ historical_performance = <<>>
    /\ calibrator = NoCalibrator

\* "summary": self._generate_summary(all_results)
generate_summary ==
    /\ ~fn_ret.done
    /\ fn_ret' = Returned("_generate_summary", GenerateSummary(fn_args.results))
    /\ UNCHANGED <<batchVars, clientVars, jobVars, fn_args, fn_calls, historical_performance,
                   calibrator, use_cache, cache, now>>

\* ForecastAggregator(method).calculate_ensemble_probability(responses)
ForecastAggregator_calculate_ensemble_probability ==
    /\ ~fn_ret.done
    /\ \E method \in AggregatorMethods :
         fn_ret' = Returned("calculate_ensemble_probability",
                            [method |-> method,
                             probability |-> CalculateEnsembleProbability(fn_args.results, method)])
    /\ UNCHANGED <<batchVars, clientVars, jobVars, fn_args, fn_calls, historical_performance,
                   calibrator, use_cache, cache, now>>

NextSummary == generate_summary \/ ForecastAggregator_calculate_ensemble_probability

SpecSummary == InitSummary /\ [][NextSummary]_vars

C14_WitnessNoData ==
    /\ fn_ret.done
    /\ fn_ret.fn = "_generate_summary"
    /\ fn_ret.value.valid_probabilities = 0
    /\ ~fn_ret.value.overall_stats.present

\* the distance of an estimate from the A/B cluster of a batch: from the mean of
\* the probabilities of A and B
ClusterDistance(rs, estimate) == Abs(estimate - MeanOf(ProbsFrom(rs, {SourceA, SourceB}, 1)))

\* the batches in which A, B and C all answered every query
FullBatch(rs) == Len(ValidProbabilities(rs)) = Len(rs)

\* C15: for a batch in which A answers near 30, B near 32 and C near 85, the
\* Bayesian estimate in the summary is closer to the A/B cluster than the simple
\* mean is, and the summary reports at least one detected outlier.
C15_BayesianNearCluster ==
    (fn_ret.done /\ fn_ret.fn = "_generate_summary" /\ FullBatch(fn_args.results)) =>
        /\ ClusterDistance(fn_args.results, fn_ret.value.advanced_analysis.bayesian_ensemble)
             < ClusterDistance(fn_args.results, fn_ret.value.overall_stats.mean)
        /\ "outliers_detected" \in DOMAIN fn_ret.value.advanced_analysis
        /\ fn_ret.value.advanced_analysis.outliers_detected > 0

(* ------------------------ the reply store alone ------------------------- *)
\* most set calls of one run of the store
MaxStoreOps == 2

\* a source identifier without the ":free" suffix of FreeModel
UnsuffixedModel == <<"mistralai/", "mistral">>

\* a prompt that begins with "free:"
FreePrefixedPrompt == <<"free", ":">> \o BatchPrompt

StoreModels == {UnsuffixedModel, FreeModel}

StorePrompts == {BatchPrompt, FreePrefixedPrompt}

StoreKeys == {GenerateCacheKey(m, p) : m \in StoreModels, p \in StorePrompts}

\* the replies set() is called with
StoreReplies(model) == {Result(model, "success", v, <<>>, 50, "api") : v \in {30, 85}}

\* response_cache.db as an earlier run left it: empty, or with one row that
\* expires before, at or after the instants of this run
StoreFiles ==
    LET empty == [k \in StoreKeys |-> NoEntry] IN
    {empty} \cup
    {[empty EXCEPT ![GenerateCacheKey(m, p)] =
          [present |-> TRUE, response |-> Result(m, "success", 85, <<>>, 50, "api"),
           probability |-> 85, expires_at |-> e]] :
       m \in StoreModels, p \in StorePrompts, e \in -1..(MaxNow + 1)}

InitStore ==
    /\ BatchIdle
    /\ ClientIdle
    /\ JobIdle
    /\ LibIdle
    /\ use_cache = TRUE
    /\ cache \in StoreFiles
    /\ now = 0

\* CacheManager.set(model, prompt, response)
CacheManager_set ==
    /\ fn_calls < MaxStoreOps
    /\ \E model \in StoreModels, prompt \in StorePrompts : \E response \in StoreReplies(model) :
         /\ fn_args' = [fn |-> "set", model |-> model, prompt |-> prompt, response |-> response]
         /\ cache' = CacheSet(cache, now, model, prompt, response)
         /\ fn_ret' = Returned("set", [at |-> now, before |-> cache,
                                       after |-> CacheSet(cache, now, model, prompt, response)])
    /\ fn_calls' = fn_calls + 1
    /\ UNCHANGED <<batchVars, clientVars, jobVars, historical_performance, calibrator,
                   use_cache, now>>

\* CacheManager.get(model, prompt)
CacheManager_get ==
    /\ \E model \in StoreModels, prompt \in StorePrompts :
         /\ fn_args' = [fn |-> "get", model |-> model, prompt |-> prompt]
         /\ fn_ret' = Returned("get", [at |-> now, before |-> cache, after |-> cache,
                                       row |-> CacheGet(cache, now, model, prompt)])
    /\ UNCHANGED <<batchVars, clientVars, jobVars, fn_calls, historical_performance,
                   calibrator, use_cache, cache, now>>

\* CacheManager.clear_expired()
CacheManager_clear_expired ==
    /\ fn_args' = [fn |-> "clear_expired"]
    /\ cache' = ClearExpiredRows(cache, now)
    /\ fn_ret' = Returned("clear_expired",
                          [at |-> now, before |-> cache, after |-> ClearExpiredRows(cache, now),
                           count |-> Cardinality({k \in DOMAIN cache :
                                                    cache[k] # ClearExpiredRows(cache, now)[k]})])
    /\ UNCHANGED <<batchVars, clientVars, jobVars, fn_calls, historical_performance,
                   calibrator, use_cache, now>>

NextStore ==
    \/ CacheManager_set
    \/ CacheManager_get
    \/ CacheManager_clear_expired
    \/ Tick

SpecStore == InitStore /\ [][NextStore]_vars

\* C16: a lookup for one (source, prompt) pair never returns a reply that was
\* stored for another pair: the reply get() returns names the source it was
\* asked for.
C16_NoReplyOfAnotherPair ==
    (fn_ret.done /\ fn_ret.fn = "get" /\ fn_ret.value.row.present) =>
        fn_ret.value.row.response.model = fn_args.model

\* the key of the last call
LastKey == GenerateCacheKey(fn_args.model, fn_args.prompt)

\* C20: get returns the row stored last for the key if and only if its expiry
\* time has not passed, an entry whose expiry time has passed is never returned,
\* and clear_expired removes exactly the entries whose expiry time has passed.
C20_ExpiryRespected ==
    fn_ret.done =>
        /\ fn_ret.fn = "set" =>
             /\ fn_ret.value.after[LastKey].present
             /\ fn_ret.value.after[LastKey].response = fn_args.response
        /\ fn_ret.fn = "get" =>
             LET stored == fn_ret.value.before[LastKey] IN
             /\ fn_ret.value.row.present =>
                  /\ stored.present
                  /\ fn_ret.value.row.response = stored.response
                  /\ ~(stored.expires_at < fn_ret.value.at)
             /\ (stored.present /\ stored.expires_at > fn_ret.value.at) => fn_ret.value.row.present
        /\ fn_ret.fn = "clear_expired" =>
             \A k \in StoreKeys :
                LET stored == fn_ret.value.before[k] IN
                /\ (stored.present /\ stored.expires_at < fn_ret.value.at) =>
                       ~fn_ret.value.after[k].present
                /\ (stored.present /\ stored.expires_at > fn_ret.value.at) =>
                       fn_ret.value.after[k] = stored

(* ------------------ the retry of a rate-limited source ------------------ *)
\* "qwen/qwen-2.5-72b-instruct:free" of settings.models.enabled_models
QwenFreeModel == <<"qwen/", "qwen-2.5-72b", "-instruct", ":", "free">>

RateLimitedModels == {FreeModel, QwenFreeModel}

\* the batches with a rate-limited source, alone or after a paid one
RetryModelLists == {<<m>> : m \in RateLimitedModels} \cup {<<PaidModel, m>> : m \in RateLimitedModels}

RetryCacheKeys == CacheKeys \cup {GenerateCacheKey(m, BatchPrompt) : m \in RateLimitedModels}

InitRetry ==
    /\ ClientIdle
    /\ JobIdle
    /\ LibIdle
    /\ models \in RetryModelLists
    /\ iterations \in 1..MaxIter
    /\ Len(models) * iterations <= MaxQueries
    /\ use_cache \in BOOLEAN
    /\ concurrent_requests \in 1..MaxConc
    /\ cache = [k \in RetryCacheKeys |-> NoEntry]
    /\ now = 0
    /\ pc = "start"
    /\ mi = 1
    /\ pos = [i \in Tasks |-> "idle"]
    /\ results = [i \in Tasks |-> NoResult]
    /\ calls = [i \in Tasks |-> 0]
    /\ req_tokens = [i \in Tasks |-> 0]
    /\ slept = [i \in Tasks |-> Null]
    /\ trace = [i \in Tasks |-> <<>>]
    /\ cap = [i \in Tasks |-> <<>>]
    /\ all_calls = <<>>
    /\ semaphore = 0
    /\ model_task = [k \in 1..Len(models) |-> 0]
    /\ main_task = 0
    /\ all_results = <<>>

SpecRetry == InitRetry /\ [][Next]_vars

\* limited_query(i) goes from its first request to its retry
Retries(i) == pos[i] = "q1" /\ pos'[i] = "q2"

\* C19: when the empty reply of a rate-limited source is retried, the effective
\* max_tokens of the retry request is strictly greater than that of the first
\* request, whatever the source identifier.
C19_RetryBudgetGreater ==
    [][\A i \in DOMAIN pos : (i \in DOMAIN pos' /\ Retries(i)) => req_tokens'[i] > req_tokens[i]]_vars

(* --------------------------- BatchCalibrator ---------------------------- *)
\* Python floats are IEEE 754 doubles.  A positive double is m * 2^e with a
\* mantissa 2^52 <= m < 2^53, written here in five digits of base 2^13, most
\* significant first, so that the first digit is 1; arithmetic rounds to the
\* nearest double, ties to the even mantissa
Limb == 8192

ZeroDouble == [zero |-> TRUE, m |-> <<0, 0, 0, 0, 0>>, e |-> 0]

\* the number of binary digits of 1 <= n < 2^13
BitLength(n) == CHOOSE k \in 1..13 : 2^(k - 1) <= n /\ n < 2^k

\* float(n) of an integer 0 <= n < 2^13
FromInt(n) ==
    IF n = 0 THEN ZeroDouble
    ELSE LET v == n * 2^(13 - BitLength(n)) IN
         [zero |-> FALSE, m |-> <<1, 2 * (v % 4096), 0, 0, 0>>, e |-> BitLength(n) - 53]

\* the digits of x * k for a small k; the first digit takes the last carry
TimesSmall(x, k) ==
    LET t5 == x[5] * k
        t4 == x[4] * k + t5 \div Limb
        t3 == x[3] * k + t4 \div Limb
        t2 == x[2] * k + t3 \div Limb
        t1 == x[1] * k + t2 \div Limb
    IN <<t1, t2 % Limb, t3 % Limb, t4 % Limb, t5 % Limb>>

\* the quotient digits and the remainder of x divided by a small d
DividedBySmall(x, d) ==
    LET t2 == (x[1] % d) * Limb + x[2]
        t3 == (t2 % d) * Limb + x[3]
        t4 == (t3 % d) * Limb + x[4]
        t5 == (t4 % d) * Limb + x[5]
    IN [q |-> <<x[1] \div d, t2 \div d, t3 \div d, t4 \div d, t5 \div d>>, r |-> t5 % d]

\* x + 1
Increment(x) ==
    LET t5 == x[5] + 1
        t4 == x[4] + t5 \div Limb
        t3 == x[3] + t4 \div Limb
        t2 == x[2] + t3 \div Limb
        t1 == x[1] + t2 \div Limb
    IN <<t1, t2 % Limb, t3 % Limb, t4 % Limb, t5 % Limb>>

\* the double nearest to (q + r/d) * 2^e, where 2^52 <= q < 2^53
RoundToDouble(q, r, d, e) ==
    LET up == 2 * r > d \/ (2 * r = d /\ q[5] % 2 = 1)
        m == IF up THEN Increment(q) ELSE q
    IN IF m[1] = 2 THEN [zero |-> FALSE, m |-> <<1, 0, 0, 0, 0>>, e |-> e + 1]
       ELSE [zero |-> FALSE, m |-> m, e |-> e]

\* x / 100.0: m * 2^6 / 100 when that is at least 2^52, else m * 2^7 / 100
DivideBy100(x) ==
    LET d6 == DividedBySmall(TimesSmall(x.m, 64), 100)
        d7 == DividedBySmall(TimesSmall(x.m, 128), 100)
    IN IF x.zero THEN x
       ELSE IF d6.q[1] >= 1 THEN RoundToDouble(d6.q, d6.r, 100, x.e - 6)
       ELSE RoundToDouble(d7.q, d7.r, 100, x.e - 7)

\* x * 100: m * 100 / 2^6 when that is below 2^53, else m * 100 / 2^7
TimesHundred(x) ==
    LET d6 == DividedBySmall(TimesSmall(x.m, 100), 64)
        d7 == DividedBySmall(TimesSmall(x.m, 100), 128)
    IN IF x.zero THEN x
       ELSE IF d6.q[1] < 2 THEN RoundToDouble(d6.q, d6.r, 64, x.e + 6)
       ELSE RoundToDouble(d7.q, d7.r, 128, x.e + 7)

\* x > y for doubles that are not negative
DoubleGreater(x, y) ==
    IF x.zero THEN FALSE
    ELSE IF y.zero THEN TRUE
    ELSE \/ x.e > y.e
         \/ /\ x.e = y.e
            /\ \E i \in 1..5 : x.m[i] > y.m[i] /\ \A j \in 1..(i - 1) : x.m[j] = y.m[j]

\* np.clip(x, 0, 100) of a double that is not negative
ClipPercent(x) == IF DoubleGreater(x, FromInt(100)) THEN FromInt(100) ELSE x

\* BatchCalibrator(method)
NewCalibrator(method) ==
    [method |-> method, temperature |-> 1 * Scale, is_fitted |-> FALSE, calibration_model |-> FALSE]

\* fit(probabilities) without labels on at most one probability: no batch has
\* more than one element, so the temperature is set to 1.0 and no model is fitted
FitUnsupervised(c, probabilities) ==
    [c EXCEPT !.temperature = IF c.method = "temperature" THEN 1 * Scale ELSE @,
              !.is_fitted = TRUE]

\* calibrate(probability): prob_01 = probability / 100.0, calibrated = prob_01,
\* np.clip(calibrated * 100, 0, 100); the logit/expit branch and the fitted models are
\* behind temperature # 1.0 and calibration_model, which FitUnsupervised never sets
Calibrate(c, probability) ==
    IF ~c.is_fitted THEN probability
    ELSE LET prob_01 == DivideBy100(probability)
             calibrated == prob_01
         IN ClipPercent(TimesHundred(calibrated))

\* most calls of calibrate on one calibrator
MaxCalibrations == 2

\* the probabilities calibrate is given: the whole percentages
Percentages == 0..100

CalibratorMethods == {"temperature", "platt", "isotonic"}

InitCalib ==
    /\ BatchIdle
    /\ ClientIdle
    /\ JobIdle
    /\ use_cache = FALSE
    /\ cache = EmptyCache
    /\ now = 0
    /\ fn_args = NoCall
    /\ fn_ret = NotReturned
    /\ fn_calls = 0
    /\ historical_performance = <<>>
    /\ calibrator \in {NewCalibrator(method) : method \in CalibratorMethods}

\* calibrator.fit(probabilities)
BatchCalibrator_fit ==
    /\ ~calibrator.is_fitted
    /\ \E probabilities \in {<<>>} \cup {<<FromInt(p)>> : p \in {7, 50}} :
         /\ fn_args' = [fn |-> "fit", probability |-> ZeroDouble, n |-> Len(probabilities)]
         /\ calibrator' = FitUnsupervised(calibrator, probabilities)
    /\ UNCHANGED <<batchVars, clientVars, jobVars, fn_ret, fn_calls, historical_performance,
                   use_cache, cache, now>>

\* calibrator.calibrate(p) of a whole percentage, or of the value the last call returned
BatchCalibrator_calibrate ==
    /\ fn_calls < MaxCalibrations
    /\ \E probability \in {FromInt(p) : p \in Percentages}
                           \cup {fn_ret.value : x \in {y \in {1} : fn_ret.fn = "calibrate"}} :
         /\ fn_args' = [fn |-> "calibrate", probability |-> probability, n |-> 1]
         /\ fn_ret' = Returned("calibrate", Calibrate(calibrator, probability))
    /\ fn_calls' = fn_calls + 1
    /\ UNCHANGED <<batchVars, clientVars, jobVars, historical_performance, calibrator,
                   use_cache, cache, now>>

NextCalib == BatchCalibrator_fit \/ BatchCalibrator_calibrate

SpecCalib == InitCalib /\ [][NextCalib]_vars

\* C18: a calibrator fitted for temperature scaling with T = 1.0 returns every
\* probability unchanged, also when the probability is the result of an earlier
\* call.
C18_IdentityAtUnitTemperature ==
    (fn_ret.done /\ fn_ret.fn = "calibrate" /\ calibrator.method = "temperature"
     /\ calibrator.is_fitted /\ calibrator.temperature = 1 * Scale) =>
        fn_ret.value = fn_args.probability

(* ------------------------ refusals in the batch ------------------------- *)
\* the last reply the capability gave limited_query(i) was a refusal text
RefusedLast(i) == cap[i] # <<>> /\ cap[i][Len(cap[i])] = "refusal"

\* C21: a reply that is long enough and holds a refusal phrase becomes a record
\* with status rejected and no error; the query ends with it (no retry follows
\* a refusal), and no row of the cache holds a rejected reply.
C21_RefusalRejected ==
    /\ \A i \in DOMAIN cap :
         /\ RefusedLast(i) =>
              /\ pos[i] = "done"
              /\ results[i].status = "rejected"
              /\ results[i].error = <<>>
              /\ trace[i][Len(trace[i])] = "rejected"
         /\ \A k \in 1..(Len(cap[i]) - 1) : cap[i][k] # "refusal"
    /\ \A key \in DOMAIN cache : cache[key].present => cache[key].response.status = "success"

\* a rate-limited source answered with a refusal while the cache was on
C21_Witness ==
    \E i \in DOMAIN cap :
        /\ RefusedLast(i)
        /\ pc = "batch"
        /\ IsFreeModel(cur_model)
        /\ use_cache
        /\ results[i].status = "rejected"
        /\ calls[i] = 1

(* ------------------- the history of the BayesianAggregator -------------- *)
\* errors[-20:]: the number of errors avg_error is taken over
HistoryWindow == 20

\* most calls of aggregate_forecasts with the sources' names as expert ids
MaxHistoryCalls == 3

\* the expert ids of a call: the name of the source of each forecast, as
\* _apply_advanced_algorithms passes them; one source gives several forecasts
ExpertIdChoices(n) == {[i \in 1..n |-> "a"], [i \in 1..n |-> IF i % 2 = 1 THEN "a" ELSE "b"]}

\* the forecast lists of these calls, in percent: n forecasts, the first one
\* away from the others
NamedPanels == {[i \in 1..n |-> IF i = 1 THEN v ELSE 50] : n \in {1, 7, 8}, v \in {10, 90}}

\* a call of BayesianAggregator.aggregate_forecasts with expert_ids given
aggregate_forecasts_with_ids ==
    /\ fn_calls < MaxHistoryCalls
    /\ \E forecasts \in NamedPanels : \E expert_ids \in ExpertIdChoices(Len(forecasts)) :
         LET fs == [i \in 1..Len(forecasts) |-> Pct(forecasts[i])]
             r == AggregateForecasts(fs, expert_ids, DefaultConfidences(Len(fs)),
                                     historical_performance)
         IN /\ fn_args' = [fn |-> "aggregate_forecasts", forecasts |-> fs,
                           expert_ids |-> expert_ids,
                           confidences |-> DefaultConfidences(Len(fs))]
            /\ fn_ret' = Returned("aggregate_forecasts", [r EXCEPT !.hist = <<>>])
            /\ historical_performance' = r.hist
    /\ fn_calls' = fn_calls + 1
    /\ UNCHANGED <<batchVars, clientVars, jobVars, calibrator, use_cache, cache, now>>

NextHistory == aggregate_forecasts_with_ids

SpecHistory == InitBayes /\ [][NextHistory]_vars

\* C22: the errors stored for a source never number more than 20.
C22_HistoryCapped ==
    \A id \in DOMAIN historical_performance :
        Len(historical_performance[id]) <= HistoryWindow

(* ---------------- ForecastAggregator.get_advanced_aggregation ----------- *)
\* most calls of get_advanced_aggregation on one ForecastAggregator
MaxAdvancedCalls == 3

\* _create_batches(probabilities, batch_size=10): the sorted list cut into tens
CreateBatches(probabilities) ==
    LET sorted_probs == Sorted(probabilities)
        n == Len(sorted_probs)
    IN [b \in 1..((n + 9) \div 10) |->
          SubSeq(sorted_probs, 10 * (b - 1) + 1, IF 10 * b < n THEN 10 * b ELSE n)]

\* np.var(batch) in hundredths
Variance(batch) ==
    LET n == Len(batch)
        s1 == SumSeq(batch)
        s2 == SumSeq([i \in 1..n |-> batch[i] * batch[i]])
    IN (100 * (n * s2 - s1 * s1)) \div (n * n)

\* _fit_unsupervised for method "temperature": 1.0 + (avg_variance - 0.01) * 10
\* clamped to [0.5, 2.0], and 1.0 when no batch has more than one element
FitTemperature(probabilities) ==
    LET batches == CreateBatches(probabilities)
        large == {b \in DOMAIN batches : Len(batches[b]) > 1}
        batch_variances == [k \in 1..Cardinality(large) |->
                              Variance(batches[CHOOSE b \in large :
                                          Cardinality({x \in large : x <= b}) = k])]
        avg_variance == SumSeq(batch_variances) \div Len(batch_variances)
        t == Scale + (avg_variance - 1) * 10 * (Scale \div 100)
    IN IF large = {} THEN 1 * Scale
       ELSE IF t < Scale \div 2 THEN Scale \div 2
       ELSE IF t > 2 * Scale THEN 2 * Scale
       ELSE t

\* the calibrator after calibrate_batch(probabilities): fitted on the batch
\* if not already fitted
CalibrateBatch(c, probabilities) ==
    IF ~c.is_fitted
    THEN [c EXCEPT !.temperature = FitTemperature(probabilities), !.is_fitted = TRUE]
    ELSE c

\* the valid responses of a call: (model, probability in percent)
AdvancedBatches ==
    {<<>>, <<[model |-> "a", probability |-> 50]>>,
     <<[model |-> "a", probability |-> 50], [model |-> "b", probability |-> 50]>>,
     <<[model |-> "a", probability |-> 30], [model |-> "b", probability |-> 32]>>,
     <<[model |-> "a", probability |-> 30], [model |-> "a", probability |-> 32],
       [model |-> "b", probability |-> 85]>>}

\* ForecastAggregator(): the calibrator and the Bayesian aggregator of __init__
InitAggregator ==
    /\ BatchIdle
    /\ ClientIdle
    /\ JobIdle
    /\ use_cache = FALSE
    /\ cache = EmptyCache
    /\ now = 0
    /\ fn_args = NoCall
    /\ fn_ret = NotReturned
    /\ fn_calls = 0
    /\ historical_performance = <<>>
    /\ calibrator = NewCalibrator("temperature")

\* one call of get_advanced_aggregation(responses)
get_advanced_aggregation ==
    /\ fn_calls < MaxAdvancedCalls
    /\ \E valid_responses \in AdvancedBatches :
         LET valid_probabilities == [i \in DOMAIN valid_responses |-> valid_responses[i].probability]
             expert_ids == [i \in DOMAIN valid_responses |-> valid_responses[i].model]
             c == CalibrateBatch(calibrator, valid_probabilities)
             r == AggregateForecasts([i \in DOMAIN valid_responses |-> Pct(valid_probabilities[i])],
                                     expert_ids,
                                     DefaultConfidences(Len(valid_responses)),
                                     historical_performance)
         IN /\ fn_args' = [fn |-> "get_advanced_aggregation",
                           valid_probabilities |-> valid_probabilities]
            /\ IF valid_responses = <<>>
               THEN /\ fn_ret' = Returned("get_advanced_aggregation",
                                          [error |-> TRUE, calibration_temperature |-> Null,
                                           bayesian_aggregated |-> Null])
                    /\ UNCHANGED <<calibrator, historical_performance>>
               ELSE /\ fn_ret' = Returned("get_advanced_aggregation",
                                          [error |-> FALSE,
                                           calibration_temperature |-> c.temperature,
                                           bayesian_aggregated |-> r.aggregated_probability])
                    /\ calibrator' = c
                    /\ historical_performance' = r.hist
    /\ fn_calls' = fn_calls + 1
    /\ UNCHANGED <<batchVars, clientVars, jobVars, use_cache, cache, now>>

NextAggregator == get_advanced_aggregation

SpecAggregator == InitAggregator /\ [][NextAggregator]_vars

\* C23: the temperature a call of get_advanced_aggregation reports for its batch
\* is the temperature fitted from that batch.
C23_TemperatureOfOwnBatch ==
    (fn_ret.done /\ fn_ret.fn = "get_advanced_aggregation" /\ ~fn_ret.value.error) =>
        fn_ret.value.calibration_temperature = FitTemperature(fn_args.valid_probabilities)

(* ------------------- aggregate_forecasts as a function ------------------ *)
\* C24: a call of aggregate_forecasts with the forecasts, expert ids and
\* confidences of the call before it on the same aggregator returns the same
\* weights and the same posterior mean.
C24_SameArgumentsSameResult ==
    [][(/\ fn_ret.done /\ fn_ret.fn = "aggregate_forecasts"
        /\ fn_ret'.done /\ fn_ret'.fn = "aggregate_forecasts"
        /\ fn_args'.forecasts = fn_args.forecasts
        /\ fn_args'.confidences = fn_args.confidences) =>
          /\ fn_ret'.value.expert_weights = fn_ret.value.expert_weights
          /\ fn_ret'.value.aggregated_probability = fn_ret.value.aggregated_probability]_vars

(* --------------------- the status of a forecast job --------------------- *)
\* the statuses a forecast has once it is no longer running
FinalStatuses == {"completed", "failed", "cancelled"}

\* C25: once the status of a forecast is completed, failed or cancelled, no
\* step of run_forecast and no cancel request changes it.
C25_FinalStatusKept ==
    [][(job_status \in FinalStatuses) => (job_status' = job_status)]_vars

\* C26: the progress of a forecast is within 0..100, and it is 100 exactly
\* when the status is completed and the result is set.
C26_ProgressMatchesStatus ==
    job_pc # "none" =>
        /\ job_progress \in 0..100
        /\ job_progress = 100 <=> (job_status = "completed" /\ job_result.present)

\* the progress never decreases while run_forecast runs
ProgressNeverDecreases ==
    [][(job_pc # "none") => (job_progress' >= job_progress)]_vars

\* the progress is within 0..100, and a forecast with progress 100 has a result
ProgressWithinRange ==
    job_pc # "none" =>
        /\ job_progress \in 0..100
        /\ job_progress = 100 => job_result.present

(* ------------------ the summary of query_model's records ---------------- *)
\* most records in a summarised batch of query_model's records
MaxSummaryReplies == 2

\* a refusal text that also states a forecast, as in "I cannot comply with the
\* framing of the question. PROGNOSE: 30%"
RefusalWithValue ==
    [kind |-> "content", length |-> 50, refusal |-> TRUE, value |-> 30, error_str |-> <<>>]

\* what the capability gives the queries of a summarised batch
SummaryReplies == {r \in Replies : r.kind \in {"content", "timeout"}} \cup {RefusalWithValue}

\* the records query_model returns for them, the cache being off
RepliedRecords ==
    {QueryModelFinish(EmptyCache, 0, m, BatchPrompt, reply, FALSE, FALSE).result :
        m \in {PaidModel, FreeModel}, reply \in SummaryReplies}

ReplyBatches == UNION {[1..n -> RepliedRecords] : n \in 1..MaxSummaryReplies}

InitSummaryOfReplies ==
    /\ BatchIdle
    /\ ClientIdle
    /\ JobIdle
    /\ use_cache = FALSE
    /\ cache = EmptyCache
    /\ now = 0
    /\ fn_args \in {[fn |-> "aggregate", results |-> rs] : rs \in ReplyBatches}
    /\ fn_ret = NotReturned
    /\ fn_calls = 0
    /\ historical_performance = <<>>
    /\ calibrator = NoCalibrator

SpecSummaryOfReplies == InitSummaryOfReplies /\ [][NextSummary]_vars

\* C27: in every summary the queries are the successful and the failed ones,
\* and no more probabilities are counted than there are successful queries.
C27_CountsConsistent ==
    (fn_ret.done /\ fn_ret.fn = "_generate_summary") =>
        /\ fn_ret.value.total_queries
             = fn_ret.value.successful_queries + fn_ret.value.failed_queries
        /\ fn_ret.value.valid_probabilities <= fn_ret.value.successful_queries

(* -------------------- the statuses of the data model -------------------- *)
\* class ResponseStatus(str, Enum)
ResponseStatus == {"success", "error", "timeout", "rate_limited"}

\* C28: the status of every record that query_model returns to the batch, and
\* of every record the batch collects, is a member of ResponseStatus.
C28_StatusInEnumeration ==
    /\ \A i \in DOMAIN results : results[i].py = "dict" => results[i].status \in ResponseStatus
    /\ \A k \in 1..Len(all_results) : all_results[k].status \in ResponseStatus

(* ------------------ iterations served from the cache -------------------- *)
\* the row of the source being queried, for the batch's prompt
BatchRow == cache[GenerateCacheKey(cur_model, BatchPrompt)]

\* limited_query(i) makes its first call of query_model in this step
StartsQuery(i) == pos[i] \in {"new", "sleep"} /\ pos'[i] \notin {"new", "sleep"}

C30_TestAsksCapability ==
    [][(pc = "start" /\ ~AllFree(models)) => (pc' # "loop")]_vars

====
